---- MODULE Spec2Model ----
(***************************************************************************)
(* Model of the CHAT transcript tooling of ICL-PILOT: the agreement        *)
(* annotation passes and their revert, the past-tense report, the CLAN     *)
(* error coding, the [+ gram] tagging, the batch drivers of these passes,  *)
(* the passes called on the files of a folder by a pool of workers, the    *)
(* frequency aggregator, the story extractors and extract_chi_text.        *)
(*                                                                         *)
(* Text is modelled as strings, character by character: the regular        *)
(* expressions of the scripts are translated to scans over positions.      *)
(***************************************************************************)
EXTENDS Integers, Sequences, FiniteSets, TLC

\* the rewriting and reporting passes: the transcript's lines, the value the
\* last call returned, the calls made so far and the file before each call
VARIABLES file, ret, ops, hist

\* the frequency aggregator: which script runs, the directory listing, the
\* position of the first loop in it, main's locals and the rows written
VARIABLES script, cex_dir, idx, all_error_codes, file_data, sorted_error_codes,
          csvfile, pc

\* the story extractor: which script runs, the directory listing, the file
\* and line the loops are at, and the script's globals and per-file locals
VARIABLES extractor, data_path, fileno, phase, lineno, corpus_name, child_id,
          age_string, diagnosis, current_gem, current_transcript, data_rows

\* a batch driver: which script runs, the .cha files it found (with what
\* goes wrong with each), what each file holds on disk, the file the loop is
\* at and the step of its processing, the lines about to be written, the
\* running total and the lines printed
VARIABLES driver, cha_files, disk, at, step, new_lines, total_errors, stdout

\* extract_chi_text: the lines of the file it was called on, the line its
\* loop is at, the cleaned utterances collected and what it returned (empty
\* until it returns)
VARIABLES sli_file, line_no, chi_texts, returned

\* an annotation pass run on the files of a folder by workers that each call
\* the function on one file: which function, what the files held when the
\* run began, what they hold now, and for each file the call on it (not
\* started, past its read with its locals lines and errors_found, or
\* returned)
VARIABLES job, folder, on_disk, calls

pvars == <<file, ret, ops, hist>>

fvars == <<script, cex_dir, idx, all_error_codes, file_data, sorted_error_codes,
           csvfile, pc>>

svars == <<extractor, data_path, fileno, phase, lineno, corpus_name, child_id,
           age_string, diagnosis, current_gem, current_transcript, data_rows>>

bvars == <<driver, cha_files, disk, at, step, new_lines, total_errors, stdout>>

xvars == <<sli_file, line_no, chi_texts, returned>>

wvars == <<job, folder, on_disk, calls>>

vars == <<pvars, fvars, svars, bvars, xvars, wvars>>

\* a script that is not running
PassIdle == file = <<>> /\ ret = 0 /\ ops = <<>> /\ hist = <<>>

AggIdle ==
    /\ script = "" /\ cex_dir = <<>> /\ idx = 0 /\ all_error_codes = {}
    /\ file_data = <<>> /\ sorted_error_codes = <<>> /\ csvfile = <<>> /\ pc = ""

SegIdle ==
    /\ extractor = "" /\ data_path = <<>> /\ fileno = 0 /\ phase = "" /\ lineno = 0
    /\ corpus_name = "" /\ child_id = "" /\ age_string = "" /\ diagnosis = ""
    /\ current_gem = "" /\ current_transcript = <<>> /\ data_rows = <<>>

BatchIdle ==
    /\ driver = "" /\ cha_files = <<>> /\ disk = <<>> /\ at = 0 /\ step = ""
    /\ new_lines = <<>> /\ total_errors = 0 /\ stdout = <<>>

ChiIdle == sli_file = <<>> /\ line_no = 0 /\ chi_texts = <<>> /\ returned = <<>>

PoolIdle == job = "" /\ folder = <<>> /\ on_disk = <<>> /\ calls = <<>>

----------------------------------------------------------------------------
(* Bounds *)
MaxToks == 3
MaxTailToks == 2
MaxLines == 2
MaxPasses == 2
MaxItems == 2
MaxReports == 3
MaxStoryLines == 4
MaxFiles == 2
MaxHeaders == 2
MaxBatch == 2
MaxMarks == 3
MaxChiToks == 2
MaxChiLines == 2
MaxWorkers == 3

----------------------------------------------------------------------------
(* Characters and strings *)
LowerCase == "abcdefghijklmnopqrstuvwxyz"
UpperCase == "ABCDEFGHIJKLMNOPQRSTUVWXYZ"
DigitChars == "0123456789"

\* s[i-1] in Python terms: the character at position i (1-based), "" out of range
Ch(s, i) == IF i >= 1 /\ i <= Len(s) THEN SubSeq(s, i, i) ELSE ""

CharsOf(s) == {Ch(s, i) : i \in 1..Len(s)}

LowerSet == CharsOf(LowerCase)
UpperSet == CharsOf(UpperCase)
DigitSet == CharsOf(DigitChars)
SpaceSet == {" ", "\t", "\n", "\r"}
LetterSet == LowerSet \cup UpperSet
WordSet == LetterSet \cup DigitSet \cup {"_"}

\* \s
IsSpace(c) == c \in SpaceSet
\* \w
IsWordCh(c) == c \in WordSet
\* [a-z] under re.IGNORECASE
IsLetter(c) == c \in LetterSet

LowerCh(c) ==
    IF c \in UpperSet
    THEN Ch(LowerCase, CHOOSE k \in 1..Len(UpperCase) : Ch(UpperCase, k) = c)
    ELSE c

\* str.lower(), character by character (halving keeps the recursion shallow)
RECURSIVE Lower(_)
Lower(s) ==
    IF Len(s) <= 1 THEN LowerCh(s)
    ELSE Lower(SubSeq(s, 1, Len(s) \div 2))
            \o Lower(SubSeq(s, (Len(s) \div 2) + 1, Len(s)))

\* the literal w stands at position i of s
At(s, i, w) ==
    /\ i >= 1
    /\ i + Len(w) - 1 <= Len(s)
    /\ SubSeq(s, i, i + Len(w) - 1) = w

\* Python's  w in s
Contains(s, w) == \E i \in 1..Len(s) : At(s, i, w)

\* \b between positions i-1 and i
Boundary(s, i) == IsWordCh(Ch(s, i - 1)) # IsWordCh(Ch(s, i))

Max(S) == CHOOSE x \in S : \A y \in S : y <= x
Min(S) == CHOOSE x \in S : \A y \in S : x <= y

\* first position >= k that holds no whitespace (Len(s)+1 when there is none)
SkipWs(s, k) == Min({j \in k..(Len(s) + 1) : ~IsSpace(Ch(s, j))})

\* first position >= k that holds no letter
SkipLetters(s, k) == Min({j \in k..(Len(s) + 1) : ~IsLetter(Ch(s, j))})

RECURSIVE SumSeq(_)
SumSeq(q) == IF q = <<>> THEN 0 ELSE Head(q) + SumSeq(Tail(q))

----------------------------------------------------------------------------
(* The pattern \b{subject}\s+{verb}\b of the agreement passes.  The passes *)
(* match under re.IGNORECASE: positions are found on the lowered line L and *)
(* the text is copied from the line s itself (Len(L) = Len(s)).             *)

\* the positions where \b can precede a word character
WordStarts(L) ==
    {i \in 1..Len(L) : IsWordCh(Ch(L, i)) /\ ~IsWordCh(Ch(L, i - 1))}

\* matched at position i: the position of the verb's last character, else 0
PairEnd(L, i, subject, verb) ==
    IF /\ At(L, i, subject)
       /\ Boundary(L, i)
       /\ IsSpace(Ch(L, i + Len(subject)))
    THEN LET j == SkipWs(L, i + Len(subject))
         IN  IF At(L, j, verb) /\ Boundary(L, j + Len(verb))
             THEN j + Len(verb) - 1
             ELSE 0
    ELSE 0

\* re.sub(r'\b({subject}\s+{verb})\b', r'\g<1>' + ins, s, flags=re.IGNORECASE),
\* scanning from position i
\* scanning from position i: text up to and including the leftmost match is
\* copied, ins is added, and the scan goes on behind the match
RECURSIVE SubFrom(_, _, _, _, _, _)
SubFrom(s, L, i, subject, verb, ins) ==
    LET K == {k \in i..Len(L) : PairEnd(L, k, subject, verb) > 0}
    IN  IF K = {} THEN SubSeq(s, i, Len(s))
        ELSE LET e == PairEnd(L, Min(K), subject, verb)
             IN  SubSeq(s, i, e) \o ins \o SubFrom(s, L, e + 1, subject, verb, ins)

Sub(s, subject, verb, ins) == SubFrom(s, Lower(s), 1, subject, verb, ins)

\* the loop order  for subject in S: for verb in V
PairAt(S, V, k) == <<S[((k - 1) \div Len(V)) + 1], V[((k - 1) % Len(V)) + 1]>>

\* the (subject, verb) pairs, by loop position, whose pattern.search(line)
\* finds a match
PairMatches(line, S, V) ==
    LET L == Lower(line)
        W == WordStarts(L)
    IN  {k \in 1..(Len(S) * Len(V)) :
            \E i \in W : PairEnd(L, i, PairAt(S, V, k)[1], PairAt(S, V, k)[2]) > 0}

\* every matching pair assigns lines[i] = re.sub(..., line): each substitution
\* reads the line as it was read from the file, so the last matching pair
\* decides lines[i]
AnnotatePairs(line, S, V, ins) ==
    LET M == PairMatches(line, S, V)
    IN  IF M = {} THEN line
        ELSE Sub(line, PairAt(S, V, Max(M))[1], PairAt(S, V, Max(M))[2], ins)

----------------------------------------------------------------------------
(* scripts/find_unv_errors.py *)
SINGULAR_SUBJECTS ==
    <<"it", "she", "he", "this", "that", "one", "everyone", "someone",
      "anyone", "nobody", "somebody", "anybody", "either", "neither">>

BARE_VERBS == <<"be", "were", "have", "do", "go", "say">>

CUNV == "[* m:unv:a]"

unv_skip(line) == Contains(line, "*[") /\ Contains(line, "m:unv:a")

unv_line(line) ==
    IF unv_skip(line) THEN line
    ELSE AnnotatePairs(line, SINGULAR_SUBJECTS, BARE_VERBS, " " \o CUNV)

unv_count(line) ==
    IF unv_skip(line) THEN 0
    ELSE Cardinality(PairMatches(line, SINGULAR_SUBJECTS, BARE_VERBS))

----------------------------------------------------------------------------
(* scripts/find_agreement_errors.py *)
PLURAL_SUBJECTS ==
    <<"they", "we", "these", "those", "both", "many", "few", "several">>

SINGULAR_VERBS ==
    <<"was", "has", "does", "is", "wants", "needs", "likes", "goes", "says">>

CVSG == "[* m:vsg:a]"

vsg_skip(line) == Contains(line, "*[") /\ Contains(line, "m:vsg:a")

vsg_line(line) ==
    IF vsg_skip(line) THEN line
    ELSE AnnotatePairs(line, PLURAL_SUBJECTS, SINGULAR_VERBS, " " \o CVSG \o " ")

vsg_count(line) ==
    IF vsg_skip(line) THEN 0
    ELSE Cardinality(PairMatches(line, PLURAL_SUBJECTS, SINGULAR_VERBS))

----------------------------------------------------------------------------
(* scripts/find_03s_errors.py *)
SINGULAR_SUBJECTS_03s ==
    <<"he", "she", "it", "this", "that", "one", "everyone", "someone",
      "anyone", "nobody", "somebody", "anybody", "either", "neither">>

\* an exclusion list that lacks one of the bare verbs
EXCLUDED_VERBS_without_do ==
    {"be", "were", "have", "has", "does", "go", "goes", "say", "says",
     "is", "was", "are", "am"}

EXCLUDED_VERBS ==
    {"be", "were", "have", "has", "do", "does", "go", "goes", "say", "says",
     "is", "was", "are", "am"}

C03S == "[* m:03s:a]"

\* \b{subject}\s+([a-z]+)\b matched at position i of the lowered line: the
\* text of group 1, lowered, else "".  The letters are taken greedily; a
\* shorter run would end between two letters, where \b fails.
WordAfter(L, i, subject) ==
    IF /\ At(L, i, subject)
       /\ Boundary(L, i)
       /\ IsSpace(Ch(L, i + Len(subject)))
    THEN LET j == SkipWs(L, i + Len(subject))
             m == SkipLetters(L, j)
         IN  IF m > j /\ Boundary(L, m) THEN SubSeq(L, j, m - 1) ELSE ""
    ELSE ""

\* match.group(1).lower() of pattern.search(line), "" when there is no match
FirstVerb(L, subject) ==
    LET I == {i \in WordStarts(L) : WordAfter(L, i, subject) # ""}
    IN  IF I = {} THEN "" ELSE WordAfter(L, Min(I), subject)

s03_skip(line) ==
    /\ Contains(line, "*[")
    /\ \/ Contains(line, "m:03s:a")
       \/ Contains(line, "m:unv:a")
       \/ Contains(line, "m:vsg:a")

\* the subjects, by loop position, whose first match has a verb that is not excluded
Firing03s(line) ==
    LET L == Lower(line)
    IN  {k \in DOMAIN SINGULAR_SUBJECTS_03s :
            LET v == FirstVerb(L, SINGULAR_SUBJECTS_03s[k])
            IN  v # "" /\ v \notin EXCLUDED_VERBS}

\* as in the other passes, the last firing subject decides lines[i]
s03_line(line) ==
    IF s03_skip(line) THEN line
    ELSE LET F == Firing03s(line)
         IN  IF F = {} THEN line
             ELSE LET subject == SINGULAR_SUBJECTS_03s[Max(F)]
                  IN  Sub(line, subject, FirstVerb(Lower(line), subject), " " \o C03S)

s03_count(line) == IF s03_skip(line) THEN 0 ELSE Cardinality(Firing03s(line))

----------------------------------------------------------------------------
(* scripts/revert_03s_annotations.py *)

\* a revert that removes the code but keeps the whitespace before it
RECURSIVE StripFrom_keeps_space(_, _)
StripFrom_keeps_space(s, i) ==
    LET K == {k \in i..Len(s) : IsSpace(Ch(s, k)) /\ At(s, k + 1, C03S)}
    IN  IF K = {} THEN SubSeq(s, i, Len(s))
        ELSE SubSeq(s, i, Min(K)) \o StripFrom_keeps_space(s, Min(K) + 1 + Len(C03S))

\* re.sub(r'\s\[\* m:03s:a\]', '', line), scanning from position i
RECURSIVE StripFrom(_, _)
StripFrom(s, i) ==
    LET K == {k \in i..Len(s) : IsSpace(Ch(s, k)) /\ At(s, k + 1, C03S)}
    IN  IF K = {} THEN SubSeq(s, i, Len(s))
        ELSE SubSeq(s, i, Min(K) - 1) \o StripFrom(s, Min(K) + 1 + Len(C03S))

revert_line(line) == IF Contains(line, C03S) THEN StripFrom(line, 1) ELSE line

revert_count(line) == IF Contains(line, C03S) THEN 1 ELSE 0

----------------------------------------------------------------------------
(* The transcripts the passes are run on *)
RECURSIVE Join(_, _)
Join(toks, sep) ==
    IF toks = <<>> THEN ""
    ELSE IF Len(toks) = 1 THEN toks[1]
    ELSE toks[1] \o sep \o Join(Tail(toks), sep)

\* two small vocabularies: one for the singular-subject rules, one for the
\* plural-subject rule
SingularToks == {"he", "that", "do", "play"}
PluralToks == {"they", "was", "he"}

WordSeqs(toks, n) == UNION {[1..k -> toks] : k \in 1..n}

MkLine(prefix, body) == prefix \o "\t" \o body \o "\n"

\* text that may already follow the words of an utterance
Tails == {" " \o CUNV, " " \o C03S, C03S, " *[ " \o CUNV}

Lines ==
    {MkLine("*CHI:", Join(w, " ")) :
        w \in WordSeqs(SingularToks, MaxToks) \cup WordSeqs(PluralToks, MaxToks)}
        \cup {MkLine("*CHI:", Join(w, " ") \o tl) :
                w \in WordSeqs(SingularToks, MaxTailToks), tl \in Tails}

SampleLines ==
    {MkLine("*CHI:", "he do"),
     MkLine("%mor:", "he play"),
     MkLine("*CHI:", "they was " \o C03S)}

Files ==
    {<<l>> : l \in Lines}
        \cup UNION {[1..n -> SampleLines] : n \in 2..MaxLines}

----------------------------------------------------------------------------
(* The passes, each a whole read-modify-write of the file *)
AnnInit ==
    /\ file \in Files
    /\ ret = 0
    /\ ops = <<>>
    /\ hist = <<>>
    /\ AggIdle
    /\ SegIdle
    /\ BatchIdle
    /\ ChiIdle
    /\ PoolIdle

\* lines are rewritten in place, errors_found is returned
find_and_annotate_unv_errors ==
    /\ Len(ops) < MaxPasses
    /\ file' = [i \in DOMAIN file |-> unv_line(file[i])]
    /\ ret' = SumSeq([i \in DOMAIN file |-> unv_count(file[i])])
    /\ ops' = Append(ops, "unv")
    /\ hist' = Append(hist, file)
    /\ UNCHANGED <<fvars, svars, bvars, xvars, wvars>>

find_and_annotate_03s_errors ==
    /\ Len(ops) < MaxPasses
    /\ file' = [i \in DOMAIN file |-> s03_line(file[i])]
    /\ ret' = SumSeq([i \in DOMAIN file |-> s03_count(file[i])])
    /\ ops' = Append(ops, "03s")
    /\ hist' = Append(hist, file)
    /\ UNCHANGED <<fvars, svars, bvars, xvars, wvars>>

find_and_annotate_vsg_errors ==
    /\ Len(ops) < MaxPasses
    /\ file' = [i \in DOMAIN file |-> vsg_line(file[i])]
    /\ ret' = SumSeq([i \in DOMAIN file |-> vsg_count(file[i])])
    /\ ops' = Append(ops, "vsg")
    /\ hist' = Append(hist, file)
    /\ UNCHANGED <<fvars, svars, bvars, xvars, wvars>>

\* lines are rewritten in place, annotations_removed is returned
revert_03s_annotations ==
    /\ Len(ops) < MaxPasses
    /\ file' = [i \in DOMAIN file |-> revert_line(file[i])]
    /\ ret' = SumSeq([i \in DOMAIN file |-> revert_count(file[i])])
    /\ ops' = Append(ops, "revert")
    /\ hist' = Append(hist, file)
    /\ UNCHANGED <<fvars, svars, bvars, xvars, wvars>>

AnnNext ==
    \/ find_and_annotate_unv_errors
    \/ find_and_annotate_03s_errors
    \/ find_and_annotate_vsg_errors
    \/ revert_03s_annotations

Init == AnnInit

Next == AnnNext

Spec == Init /\ [][Next]_vars

----------------------------------------------------------------------------
(* Properties of the agreement passes *)
AgreementOps == {"unv", "03s", "vsg"}
Codes == {CUNV, C03S, CVSG}

NoCode(f, code) == \A n \in DOMAIN f : ~Contains(f[n], code)

\* C1: a second run of the same agreement pass on its own output leaves the
\* file as the first run left it: annotate(annotate(t)) = annotate(t)
C1_AnnotateIdempotent ==
    (/\ Len(ops) >= 2
     /\ ops[Len(ops)] \in AgreementOps
     /\ ops[Len(ops) - 1] = ops[Len(ops)])
        => file = hist[Len(ops)]

\* C2: on a file that holds no [* m:03s:a], find_and_annotate_03s_errors
\* followed by revert_03s_annotations gives the file back unchanged
C2_RevertInvertsAnnotate ==
    (/\ Len(ops) >= 2
     /\ ops[Len(ops)] = "revert"
     /\ ops[Len(ops) - 1] = "03s"
     /\ NoCode(hist[Len(ops) - 1], C03S))
        => file = hist[Len(ops) - 1]

\* an annotation was inserted by the pass and taken out again by the revert
C2_Witness ==
    /\ ops = <<"03s", "revert">>
    /\ NoCode(hist[1], C03S)
    /\ hist[2] # hist[1]
    /\ ret > 0
    /\ file = hist[1]

\* C3: after an agreement pass every subject directly followed by a verb the
\* rule targets is directly followed by the rule's bare code
C3_EveryErrorMarked ==
    Len(ops) >= 1 =>
        \A n \in DOMAIN file :
            LET t == file[n]
                L == Lower(t)
            IN  \A i \in WordStarts(L) :
                /\ ops[Len(ops)] = "unv" =>
                    \A k \in 1..(Len(SINGULAR_SUBJECTS) * Len(BARE_VERBS)) :
                        LET p == PairAt(SINGULAR_SUBJECTS, BARE_VERBS, k)
                            e == PairEnd(L, i, p[1], p[2])
                        IN  e > 0 => At(t, e + 1, " " \o CUNV)
                /\ ops[Len(ops)] = "vsg" =>
                    \A k \in 1..(Len(PLURAL_SUBJECTS) * Len(SINGULAR_VERBS)) :
                        LET p == PairAt(PLURAL_SUBJECTS, SINGULAR_VERBS, k)
                            e == PairEnd(L, i, p[1], p[2])
                        IN  e > 0 => At(t, e + 1, " " \o CVSG)
                /\ ops[Len(ops)] = "03s" =>
                    \A k \in DOMAIN SINGULAR_SUBJECTS_03s :
                        LET subject == SINGULAR_SUBJECTS_03s[k]
                            v == WordAfter(L, i, subject)
                            e == SkipWs(L, i + Len(subject)) + Len(v) - 1
                        IN  (v # "" /\ v \notin EXCLUDED_VERBS)
                                => At(t, e + 1, " " \o C03S)

\* the last character of the nearest word at or before position k, looking back
\* over whitespace and agreement codes only (0 when there is none)
RECURSIVE PrevWordEnd(_, _)
PrevWordEnd(s, k) ==
    IF k < 1 THEN 0
    ELSE IF IsWordCh(Ch(s, k)) THEN k
    ELSE IF IsSpace(Ch(s, k)) THEN PrevWordEnd(s, k - 1)
    ELSE IF \E c \in Codes : At(s, k - Len(c) + 1, c)
         THEN PrevWordEnd(s, k - Len(C03S))
    ELSE 0

\* the first character of the word that ends at position e
WordStartOf(s, e) == Max({i \in WordStarts(s) : i <= e})

\* the start positions of the two words that a code at position k marks
SpanOf(s, k) ==
    LET ve == PrevWordEnd(s, k - 1)
        vs == IF ve = 0 THEN 0 ELSE WordStartOf(s, ve)
        se == IF vs = 0 THEN 0 ELSE PrevWordEnd(s, vs - 1)
        ss == IF se = 0 THEN 0 ELSE WordStartOf(s, se)
    IN  {vs, ss} \ {0}

CodeStarts(s) == {k \in 1..Len(s) : \E c \in Codes : At(s, k, c)}

InDeclaredOrder ==
    ops \in {<<"unv">>, <<"03s">>, <<"vsg">>, <<"unv", "03s">>, <<"unv", "vsg">>,
             <<"03s", "vsg">>, <<"unv", "03s", "vsg">>}

\* C6: when the rules run in their declared order on an unannotated file, no
\* word lies in the spans of two markers
C6_FirstRuleWins ==
    (/\ InDeclaredOrder
     /\ \A c \in Codes : NoCode(hist[1], c))
        => \A n \in DOMAIN file :
             \A k1, k2 \in CodeStarts(file[n]) :
                k1 # k2 => SpanOf(file[n], k1) \cap SpanOf(file[n], k2) = {}

----------------------------------------------------------------------------
(* scripts/find_past_tense_errors.py *)
IRREGULAR_VERBS ==
    << <<"break", "broke">>, <<"choose", "chose">>, <<"feel", "felt">>,
       <<"think", "thought">>, <<"buy", "bought">>, <<"stick", "stuck">>,
       <<"give", "gave">>, <<"fall", "fell">>, <<"run", "ran">>,
       <<"tell", "told">>, <<"fly", "flew">>, <<"come", "came">>,
       <<"build", "built">>, <<"have", "had">>, <<"go", "went">>,
       <<"hurt", "hurt">>, <<"do", "did">>, <<"say", "said">>,
       <<"eat", "ate">>, <<"take", "took">>, <<"see", "saw">>,
       <<"pop", "popped">>, <<"blow", "blew">>, <<"bring", "brought">> >>

CED == "[* m:=ed]"

\* \b{verb}ed\b matched at position i (case-sensitive)
RegularizedAt(s, i, verb) ==
    /\ At(s, i, verb \o "ed")
    /\ Boundary(s, i)
    /\ Boundary(s, i + Len(verb) + 2)

\* re.sub(r'\b({verb}ed)\b', r'\g<1> [: {past_form}] [* m:=ed]', line),
\* scanning from position i
RECURSIVE MarkFrom(_, _, _, _)
MarkFrom(s, i, verb, past_form) ==
    LET K == {k \in i..Len(s) : RegularizedAt(s, k, verb)}
    IN  IF K = {} THEN SubSeq(s, i, Len(s))
        ELSE LET e == Min(K) + Len(verb) + 1
             IN  SubSeq(s, i, e) \o " [: " \o past_form \o "] " \o CED
                    \o MarkFrom(s, e + 1, verb, past_form)

\* str.strip()
NonSpace(s) == {k \in 1..Len(s) : ~IsSpace(Ch(s, k))}

Strip(s) ==
    IF NonSpace(s) = {} THEN "" ELSE SubSeq(s, Min(NonSpace(s)), Max(NonSpace(s)))

\* the verbs, by position in the table, whose regularized form is found in line
VerbsFound(line) ==
    {k \in DOMAIN IRREGULAR_VERBS :
        \E i \in WordStarts(line) : RegularizedAt(line, i, IRREGULAR_VERBS[k][1])}

\* the k-th smallest element of a set of numbers
RECURSIVE Nth(_, _)
Nth(S, k) == IF k = 1 THEN Min(S) ELSE Nth(S \ {Min(S)}, k - 1)

\* the tuples appended for line number n: one for every verb found, each
\* corrected_line made from the line as read
ErrorsOfLine(n, line) ==
    LET F == VerbsFound(line)
    IN  [j \in 1..Cardinality(F) |->
            LET v == IRREGULAR_VERBS[Nth(F, j)]
            IN  <<n, Strip(line), Strip(MarkFrom(line, 1, v[1], v[2]))>>]

RECURSIVE ErrorsFrom(_, _)
ErrorsFrom(f, n) ==
    IF n > Len(f) THEN <<>>
    ELSE ErrorsOfLine(n, f[n]) \o ErrorsFrom(f, n + 1)

PastToks == {"he", "feel", "feeled", "goed"}

PastFiles ==
    {<<MkLine("*CHI:", Join(w, " "))>> : w \in WordSeqs(PastToks, MaxToks)}
        \cup {<<MkLine("*CHI:", "he feeled sad ."), MkLine("*CHI:", Join(w, " "))>> :
                w \in WordSeqs(PastToks, MaxTailToks)}

PastInit ==
    /\ file \in PastFiles
    /\ ret = <<>>
    /\ ops = <<>>
    /\ hist = <<>>
    /\ AggIdle
    /\ SegIdle
    /\ BatchIdle
    /\ ChiIdle
    /\ PoolIdle

\* the file is only read; errors_found is returned
find_and_mark_errors ==
    /\ ops = <<>>
    /\ ret' = ErrorsFrom(file, 1)
    /\ ops' = <<"past">>
    /\ UNCHANGED <<file, hist, fvars, svars, bvars, xvars, wvars>>

PastNext == find_and_mark_errors

SpecPast == PastInit /\ [][PastNext]_vars

\* C4: a line is reported exactly when it holds a regularized form, and the
\* corrected line of every report carries " [: past] [* m:=ed]" right after
\* every regularized form of the line
C4_RegularizedMarked ==
    ops = <<"past">> =>
        /\ \A n \in DOMAIN file :
            (\E j \in DOMAIN ret : ret[j][1] = n) <=> VerbsFound(file[n]) # {}
        /\ \A j \in DOMAIN ret : \A k \in DOMAIN IRREGULAR_VERBS :
            LET c == ret[j][3]
                v == IRREGULAR_VERBS[k]
            IN  \A i \in WordStarts(c) :
                    RegularizedAt(c, i, v[1]) =>
                        At(c, i + Len(v[1]) + 2, " [: " \o v[2] \o "] " \o CED)

----------------------------------------------------------------------------
(* scripts/add_clan_error_coding.py *)

\* (pattern word, correction, error code); "" stands for None
error_patterns ==
    << <<"go", "went", "[* m:base:ed]">>,
       <<"make", "made", "[* m:base:ed]">>,
       <<"dig", "dug", "[* m:base:ed]">>,
       <<"lift", "lifted", "[* m:0ed]">>,
       <<"pat", "patted", "[* m:0ed]">>,
       <<"work", "worked", "[* m:0ed]">>,
       <<"play", "played", "[* m:0ed]">>,
       <<"feel", "felt", "[* m:base:ed]">>,
       <<"cry", "cried", "[* m:0ed]">>,
       <<"smash", "smashed", "[* m:0ed]">>,
       <<"fall", "fell", "[* m:base:ed]">>,
       <<"Rabbit", "0the Rabbit", "">>,
       <<"Dog", "0the Dog", "">>,
       <<"Castle", "0the Castle", "">>,
       <<"She", "0the She", "">>,
       <<"He", "0the He", "">>,
       <<"no", "not", "[* s:r]">>,
       <<"wanna", "wanted to", "[* m:0ed]">>,
       <<"gogo", "went", "[* m:base:ed]">> >>

ArticleNouns ==
    {"rabbit", "dog", "castle", "sand", "bucket", "mistake", "sandcastle",
     "sandbox", "shovels", "work", "fun"}

Determiners == {"the", "a", "an", "his", "her", "their"}

\* \b{word}\b matched at position i (case-sensitive)
WholeWordAt(s, i, word) ==
    /\ At(s, i, word)
    /\ Boundary(s, i)
    /\ Boundary(s, i + Len(word))

\* re.finditer(pattern, s): the start positions of the matches, left to right
\* (0-based, as match.span() gives them)
MatchStarts(s, word) ==
    LET K == {k \in WordStarts(s) : WholeWordAt(s, k, word)}
    IN  [j \in 1..Cardinality(K) |-> Nth(K, j) - 1]

\* the replacement text of one match
Replacement(p) ==
    IF p[3] # "" THEN p[1] \o " [: " \o p[2] \o "] " \o p[3] ELSE p[2]

\* the inner loop: every span was measured on the utterance as it was when
\* finditer was called, and is applied to the utterance as it is by now:
\* modified[:start] + replacement + modified[end:]
RECURSIVE ApplyMatches(_, _, _)
ApplyMatches(modified, starts, p) ==
    IF starts = <<>> THEN modified
    ELSE LET start == Head(starts)
             end == start + Len(p[1])
         IN  ApplyMatches(
                SubSeq(modified, 1, start) \o Replacement(p)
                    \o SubSeq(modified, end + 1, Len(modified)),
                Tail(starts), p)

\* the outer loop over error_patterns, from pattern k on
RECURSIVE ApplyPatterns(_, _)
ApplyPatterns(modified, k) ==
    IF k > Len(error_patterns) THEN modified
    ELSE IF MatchStarts(modified, error_patterns[k][1]) = <<>>
         THEN ApplyPatterns(modified, k + 1)
         ELSE ApplyPatterns(
                ApplyMatches(modified, MatchStarts(modified, error_patterns[k][1]),
                             error_patterns[k]),
                k + 1)

\* str.split(): the maximal runs without whitespace, from position i on
RECURSIVE SplitFrom(_, _)
SplitFrom(s, i) ==
    LET K == {k \in i..Len(s) : ~IsSpace(Ch(s, k))}
    IN  IF K = {} THEN <<>>
        ELSE LET a == Min(K)
                 b == Min({j \in a..(Len(s) + 1) : IsSpace(Ch(s, j)) \/ j = Len(s) + 1})
             IN  <<SubSeq(s, a, b - 1)>> \o SplitFrom(s, b)

Split(s) == SplitFrom(s, 1)

\* the missing-article step for word i of words
ArticleWord(words, i) ==
    LET word == words[i]
    IN  IF At(word, 1, "[:") \/ At(word, 1, "[*]") \/ At(word, 1, "0")
        THEN word
        ELSE IF /\ Lower(word) \in ArticleNouns
                /\ (i = 1 \/ Lower(words[i - 1]) \notin Determiners)
             THEN "0" \o word
             ELSE word

analyze_and_add_error_coding(line) ==
    IF ~At(line, 1, "*CHI:") THEN line
    ELSE LET utterance == Strip(SubSeq(line, 7, Len(line)))
             modified_utterance == ApplyPatterns(utterance, 1)
             processed_words ==
                 [i \in 1..Len(Split(modified_utterance)) |->
                     ArticleWord(Split(modified_utterance), i)]
         IN  "*CHI:\t" \o Join(processed_words, " ")

\* one line of add_error_coding_to_file
clan_line(line) ==
    IF At(line, 1, "*CHI:")
    THEN analyze_and_add_error_coding(Strip(line)) \o "\n"
    ELSE line

ClanToks == {"go", "no", "work", "Dog", "the"}

ClanFiles ==
    {<<MkLine("*CHI:", Join(w, " "))>> : w \in WordSeqs(ClanToks, MaxToks)}
        \cup {<<MkLine("%mor:", "v|go"), MkLine("*CHI:", Join(w, " ") \o " .")>> :
                w \in WordSeqs(ClanToks, MaxTailToks)}

ClanInit ==
    /\ file \in ClanFiles
    /\ ret = 0
    /\ ops = <<>>
    /\ hist = <<>>
    /\ AggIdle
    /\ SegIdle
    /\ BatchIdle
    /\ ChiIdle
    /\ PoolIdle

\* the file is rewritten in place; nothing is returned
add_error_coding_to_file ==
    /\ Len(ops) < MaxPasses
    /\ file' = [i \in DOMAIN file |-> clan_line(file[i])]
    /\ ops' = Append(ops, "clan")
    /\ hist' = Append(hist, file)
    /\ UNCHANGED <<ret, fvars, svars, bvars, xvars, wvars>>

ClanNext == add_error_coding_to_file

SpecClan == ClanInit /\ [][ClanNext]_vars

----------------------------------------------------------------------------
(* add_gram_tag.py *)
GRAM == "[+ gram]"

\* a tagging that does not end the rewritten line
gram_line_without_newline(raw) ==
    LET line == Strip(raw)
    IN  IF /\ \/ Contains(line, "[* m:")
              \/ Contains(line, "[* s:r:")
              \/ Contains(line, " 0")
              \/ Contains(line, "CHI:\t0subj")
              \/ Contains(line, "CHI:\t0det")
           /\ ~Contains(line, GRAM)
           /\ line # ""
           /\ Ch(line, Len(line)) \in {".", "!", "?"}
        THEN line \o " " \o GRAM
        ELSE raw

\* a tagging that puts the tag before the punctuation and does not ask
\* whether the line holds the tag already
gram_line_before_punctuation(raw) ==
    LET line == Strip(raw)
    IN  IF /\ \/ Contains(line, "[* m:")
              \/ Contains(line, "[* s:r:")
              \/ Contains(line, " 0")
              \/ Contains(line, "CHI:\t0subj")
              \/ Contains(line, "CHI:\t0det")
           /\ line # ""
           /\ Ch(line, Len(line)) \in {".", "!", "?"}
        THEN SubSeq(line, 1, Len(line) - 1) \o GRAM \o " " \o Ch(line, Len(line)) \o "\n"
        ELSE raw

\* one line of process_file: the line is stripped; [.!?]\s*$ then matches
\* only its last character, so the tag is inserted at the end
gram_line(raw) ==
    LET line == Strip(raw)
    IN  IF /\ \/ Contains(line, "[* m:")
              \/ Contains(line, "[* s:r:")
              \/ Contains(line, " 0")
              \/ Contains(line, "CHI:\t0subj")
              \/ Contains(line, "CHI:\t0det")
           /\ ~Contains(line, GRAM)
           /\ line # ""
           /\ Ch(line, Len(line)) \in {".", "!", "?"}
        THEN line \o " " \o GRAM \o "\n"
        ELSE raw

\* small transcripts with headers, dependent tiers, other speakers,
\* continuation lines, doubled blanks, omitted words and a last line without
\* a line ending
Transcripts ==
    {<<"@Comment:\tscore 0 .\n", "*CHI:\the do .\n", "%mor:\tpro|he v|do .\n">>,
     <<"*MOT:\the do it .\n", "*CHI:\tthey was here .\n">>,
     <<"*CHI:\the play .\n", "%com:\the play .\n">>,
     <<"*CHI:\tthe  dog ran .\n">>,
     <<"*CHI:\the go [* m:03s:a] . [+ gram]\n", "\tand he play .\n">>,
     <<"*CHI:\tlook !\n", "%mor:\tv|look !\n">>,
     <<"*MOT:\tno go .\n", "*CHI:\tno go .\n">>,
     <<"*CHI:\the do .\n", "*CHI:\the go [* m:03s:a] .">>,
     <<"*CHI:\the want to go home and then he\n", "\tgo [* m:03s:a] to school .\n">>,
     <<"*CHI:\t0aux he going .\n", "*CHI:\the 0aux going .\n">>}

RewriteInit ==
    /\ file \in Transcripts
    /\ ret = 0
    /\ ops = <<>>
    /\ hist = <<>>
    /\ AggIdle
    /\ SegIdle
    /\ BatchIdle
    /\ ChiIdle
    /\ PoolIdle

\* the file is rewritten when a line was tagged; modified is returned (True
\* is the integer 1)
process_file ==
    /\ Len(ops) < MaxPasses
    /\ file' = [i \in DOMAIN file |-> gram_line(file[i])]
    /\ ret' = IF \E i \in DOMAIN file : gram_line(file[i]) # file[i] THEN 1 ELSE 0
    /\ ops' = Append(ops, "gram")
    /\ hist' = Append(hist, file)
    /\ UNCHANGED <<fvars, svars, bvars, xvars, wvars>>

\* every rewriting pass, in any sequence
RewriteNext ==
    \/ find_and_annotate_unv_errors
    \/ find_and_annotate_03s_errors
    \/ find_and_annotate_vsg_errors
    \/ revert_03s_annotations
    \/ process_file
    \/ add_error_coding_to_file

SpecRewrite == RewriteInit /\ [][RewriteNext]_vars

----------------------------------------------------------------------------
(* The batch drivers: main of find_unv_errors, find_03s_errors and
   add_gram_tag, and process_all_cha_files of add_clan_error_coding *)
Drivers == {"find_unv_errors", "find_03s_errors", "add_clan_error_coding", "add_gram_tag"}

\* what goes wrong with a file: nothing; open(file_path, 'r') or readlines()
\* raises; open(file_path, 'w') raises; a write to the opened file raises
Faults == {"none", "read", "open", "write"}

\* the list of lines the driver's function builds from the lines read
Rewrite(drv, lines) ==
    [i \in DOMAIN lines |->
        CASE drv = "find_unv_errors" -> unv_line(lines[i])
          [] drv = "find_03s_errors" -> s03_line(lines[i])
          [] drv = "add_clan_error_coding" -> clan_line(lines[i])
          [] OTHER -> gram_line(lines[i])]

\* the value the driver's function returns
Returned(drv, lines) ==
    CASE drv = "find_unv_errors" -> SumSeq([i \in DOMAIN lines |-> unv_count(lines[i])])
      [] drv = "find_03s_errors" -> SumSeq([i \in DOMAIN lines |-> s03_count(lines[i])])
      [] drv = "add_clan_error_coding" -> 0
      [] OTHER -> IF Rewrite(drv, lines) # lines THEN 1 ELSE 0

\* process_file opens the file for writing only `if modified`; the other
\* functions always do
Writes(drv, lines) == drv # "add_gram_tag" \/ Rewrite(drv, lines) # lines

\* the loop body is inside try/except only in add_gram_tag.main
Catches(drv) == drv = "add_gram_tag"

\* a printed line
Printed(text, path, reason, numbers) ==
    [text |-> text, path |-> path, reason |-> reason, numbers |-> numbers]

BatchContents ==
    {<<"@Comment:\tscore 0 .\n", "*CHI:\the do .\n", "%mor:\tpro|he v|do .\n">>,
     <<"*CHI:\tlook !\n", "%mor:\tv|look !\n">>}

Batches ==
    UNION {[1..n -> [lines : BatchContents, fault : Faults]] : n \in 1..MaxBatch}

FilePath(k) == "data/f" \o Ch(DigitChars, k + 1) \o ".cha"

BatchInit ==
    /\ driver \in Drivers
    /\ cha_files \in Batches
    /\ disk = [k \in DOMAIN cha_files |-> cha_files[k].lines]
    /\ at = 1
    /\ step = "loop"
    /\ new_lines = <<>>
    /\ total_errors = 0
    /\ stdout = <<>>
    /\ PassIdle
    /\ AggIdle
    /\ SegIdle
    /\ ChiIdle
    /\ PoolIdle

\* an exception leaves the function: add_gram_tag.main prints it and goes on
\* with the next file, the other drivers end with the traceback
Raise(reason, out) ==
    IF Catches(driver)
    THEN /\ stdout' = Append(out, Printed("Error processing", FilePath(at), reason, <<>>))
         /\ step' = "loop"
         /\ at' = at + 1
    ELSE /\ stdout' = out
         /\ step' = "aborted"
         /\ at' = at

\* what process_all_cha_files prints before it calls the function
Announced ==
    IF driver = "add_clan_error_coding"
    THEN Append(stdout, Printed("Processing file", FilePath(at), "", <<at, Len(cha_files)>>))
    ELSE stdout

\* the function reads the file and builds the new list of lines; process_file
\* returns False here when no line was tagged
read_file ==
    /\ step = "loop"
    /\ at <= Len(cha_files)
    /\ cha_files[at].fault # "read"
    /\ new_lines' = Rewrite(driver, disk[at])
    /\ stdout' = Announced
    /\ IF Writes(driver, disk[at])
       THEN step' = "open" /\ at' = at
       ELSE step' = "loop" /\ at' = at + 1
    /\ UNCHANGED <<driver, cha_files, disk, total_errors, pvars, fvars, svars, xvars, wvars>>

\* the file cannot be opened for reading or decoded
read_fails ==
    /\ step = "loop"
    /\ at <= Len(cha_files)
    /\ cha_files[at].fault = "read"
    /\ Raise("read", Announced)
    /\ UNCHANGED <<driver, cha_files, disk, new_lines, total_errors, pvars, fvars, svars, xvars, wvars>>

\* open(file_path, 'w') truncates the file
open_for_write ==
    /\ step = "open"
    /\ cha_files[at].fault # "open"
    /\ disk' = [disk EXCEPT ![at] = <<>>]
    /\ step' = "write"
    /\ UNCHANGED <<driver, cha_files, at, new_lines, total_errors, stdout, pvars, fvars,
                   svars, xvars, wvars>>

\* open(file_path, 'w') raises: the file is as it was
open_fails ==
    /\ step = "open"
    /\ cha_files[at].fault = "open"
    /\ Raise("open", stdout)
    /\ UNCHANGED <<driver, cha_files, disk, new_lines, total_errors, pvars, fvars, svars, xvars, wvars>>

\* writelines: some more of the lines reach the disk
write_lines ==
    /\ step = "write"
    /\ Len(disk[at]) < Len(new_lines)
    /\ \E k \in (Len(disk[at]) + 1)..Len(new_lines) :
          /\ cha_files[at].fault = "write" => k < Len(new_lines)
          /\ disk' = [disk EXCEPT ![at] = SubSeq(new_lines, 1, k)]
    /\ UNCHANGED <<driver, cha_files, at, step, new_lines, total_errors, stdout, pvars,
                   fvars, svars, xvars, wvars>>

\* a write raises part-way: the file keeps what had reached the disk
write_fails ==
    /\ step = "write"
    /\ cha_files[at].fault = "write"
    /\ Len(disk[at]) < Len(new_lines)
    /\ Raise("write", stdout)
    /\ UNCHANGED <<driver, cha_files, disk, new_lines, total_errors, pvars, fvars, svars, xvars, wvars>>

\* the file is closed and the function returns; the driver prints and counts
close_file ==
    /\ step = "write"
    /\ disk[at] = new_lines
    /\ LET errors == Returned(driver, cha_files[at].lines)
       IN  /\ total_errors' =
                IF driver = "add_clan_error_coding" THEN total_errors
                ELSE total_errors + errors
           /\ stdout' =
                IF driver = "add_gram_tag"
                THEN Append(stdout, Printed("Modified", FilePath(at), "", <<>>))
                ELSE IF driver # "add_clan_error_coding" /\ errors > 0
                     THEN Append(stdout,
                                 Printed("File - Annotated errors", FilePath(at), "", <<errors>>))
                     ELSE stdout
    /\ step' = "loop"
    /\ at' = at + 1
    /\ UNCHANGED <<driver, cha_files, disk, new_lines, pvars, fvars, svars, xvars, wvars>>

\* the loop is over: the closing line is printed
complete ==
    /\ step = "loop"
    /\ at > Len(cha_files)
    /\ stdout' =
          Append(stdout,
                 CASE driver = "add_gram_tag" ->
                        Printed("Processing complete. Modified files", "", "", <<total_errors>>)
                   [] driver = "add_clan_error_coding" ->
                        Printed("Error coding completed for all files!", "", "", <<>>)
                   [] OTHER ->
                        Printed("Total errors annotated", "", "", <<total_errors>>))
    /\ step' = "done"
    /\ UNCHANGED <<driver, cha_files, disk, at, new_lines, total_errors, pvars, fvars, svars, xvars, wvars>>

BatchNext ==
    \/ read_file
    \/ read_fails
    \/ open_for_write
    \/ open_fails
    \/ write_lines
    \/ write_fails
    \/ close_file
    \/ complete

SpecBatch == BatchInit /\ [][BatchNext]_vars

(* Properties of the lexical coding *)

\* the whole-word occurrences of word in s
Occurrences(s, word) == {i \in WordStarts(s) : WholeWordAt(s, i, word)}

\* the places of s where the target of pattern p stands rewritten
Rewritten(s, p) == {i \in WordStarts(s) : At(s, i, Replacement(p))}

\* C5: after add_error_coding_to_file has coded a file once, every whole-word
\* occurrence of a lexical target that has a code stands in the coded *CHI:
\* line as `token [: correction] code`: the line holds one rewritten target
\* per occurrence in the line as read, however many occurrences there are.
C5_EveryOccurrenceCoded ==
    ops = <<"clan">> =>
        \A n \in DOMAIN file :
            At(hist[1][n], 1, "*CHI:") =>
                \A k \in DOMAIN error_patterns :
                    error_patterns[k][3] # "" =>
                        Cardinality(Rewritten(file[n], error_patterns[k]))
                            = Cardinality(Occurrences(hist[1][n], error_patterns[k][1]))

----------------------------------------------------------------------------
(* extract_error_frequencies.py and extract_simple_error_frequencies.py *)

\* the characters in the order of their code points, for str comparison
Ascii ==
    "\t\n\r !#$%&'()*+,-./0123456789:;<=>?@ABCDEFGHIJKLMNOPQRSTUVWXYZ[]^_abcdefghijklmnopqrstuvwxyz{|}~"

Ord(c) == CHOOSE k \in 1..Len(Ascii) : Ch(Ascii, k) = c

\* a < b on str
StrLess(a, b) ==
    \E k \in 1..(Min({Len(a), Len(b)}) + 1) :
        /\ \A j \in 1..(k - 1) : Ch(a, j) = Ch(b, j)
        /\ k <= Len(b)
        /\ (k <= Len(a) => Ord(Ch(a, k)) < Ord(Ch(b, k)))

\* sorted(S) of a set of str
RECURSIVE sorted(_)
sorted(S) ==
    IF S = {} THEN <<>>
    ELSE LET least == CHOOSE x \in S : \A y \in S \ {x} : StrLess(x, y)
         IN  <<least>> \o sorted(S \ {least})

\* int(d) of a string of digits
RECURSIVE ToInt(_)
ToInt(d) ==
    IF d = "" THEN 0
    ELSE ToInt(SubSeq(d, 1, Len(d) - 1)) * 10
            + (CHOOSE k \in 0..9 : Ch(DigitChars, k + 1) = Ch(d, Len(d)))

\* str(n) of a non-negative int
RECURSIVE ToStr(_)
ToStr(n) ==
    IF n < 10 THEN Ch(DigitChars, n + 1)
    ELSE ToStr(n \div 10) \o Ch(DigitChars, (n % 10) + 1)

\* Python's None, as returned for a failed scan
None == [None |-> TRUE]

\* \d+ from position k: the position after the run of digits
DigitRunEnd(s, k) == Min({j \in k..(Len(s) + 1) : Ch(s, j) \notin DigitSet})

\* \[\*\s+[a-zA-Z]:[^\]]+\] matched at position i: the position of the closing
\* bracket, 0 without a match
CodeEnd(s, i) ==
    IF At(s, i, "[*") /\ IsSpace(Ch(s, i + 2))
    THEN LET j == SkipWs(s, i + 2)
             Close == {c \in (j + 3)..Len(s) : Ch(s, c) = "]"}
         IN  IF /\ IsLetter(Ch(s, j))
                /\ Ch(s, j + 1) = ":"
                /\ j + 2 <= Len(s)
                /\ Ch(s, j + 2) # "]"
                /\ Close # {}
             THEN Min(Close)
             ELSE 0
    ELSE 0

\* (\d+)\s+\[\*\s+[a-zA-Z]:[^\]]+\] matched at position k: the end, 0 without
FreqEnd(s, k) ==
    IF Ch(s, k) \in DigitSet /\ IsSpace(Ch(s, DigitRunEnd(s, k)))
    THEN CodeEnd(s, SkipWs(s, DigitRunEnd(s, k)))
    ELSE 0

\* re.findall(error_pattern, content): group 1 of the matches from i on
RECURSIVE FindFrequencies(_, _)
FindFrequencies(s, i) ==
    LET starts == {k \in i..Len(s) : FreqEnd(s, k) > 0}
    IN  IF starts = {} THEN <<>>
        ELSE <<SubSeq(s, Min(starts), DigitRunEnd(s, Min(starts)) - 1)>>
                \o FindFrequencies(s, FreqEnd(s, Min(starts)) + 1)

\* re.findall(error_code_pattern, content): the matches from i on
RECURSIVE FindCodes(_, _)
FindCodes(s, i) ==
    LET starts == {k \in i..Len(s) : CodeEnd(s, k) > 0}
    IN  IF starts = {} THEN <<>>
        ELSE <<SubSeq(s, Min(starts), CodeEnd(s, Min(starts)))>>
                \o FindCodes(s, CodeEnd(s, Min(starts)) + 1)

\* the position after the run of word characters from k
WordRunEnd(s, k) == Min({j \in k..(Len(s) + 1) : ~IsWordCh(Ch(s, j))})

\* (\d+)\s+(0\w+) matched at position k: the start of group 2, 0 without
SimpleCodeStart(s, k) ==
    IF Ch(s, k) \in DigitSet /\ IsSpace(Ch(s, DigitRunEnd(s, k)))
    THEN LET c == SkipWs(s, DigitRunEnd(s, k))
         IN  IF Ch(s, c) = "0" /\ IsWordCh(Ch(s, c + 1)) THEN c ELSE 0
    ELSE 0

\* re.findall(error_pattern, content) of the simple script: (frequency, code)
RECURSIVE FindSimple(_, _)
FindSimple(s, i) ==
    LET starts == {k \in i..Len(s) : SimpleCodeStart(s, k) > 0}
    IN  IF starts = {} THEN <<>>
        ELSE LET c == SimpleCodeStart(s, Min(starts))
             IN  << <<SubSeq(s, Min(starts), DigitRunEnd(s, Min(starts)) - 1),
                      SubSeq(s, c, WordRunEnd(s, c) - 1)>> >>
                    \o FindSimple(s, WordRunEnd(s, c))

\* os.path.basename
basename(path) ==
    LET slashes == {k \in 1..Len(path) : Ch(path, k) = "/"}
    IN  IF slashes = {} THEN path ELSE SubSeq(path, Max(slashes) + 1, Len(path))

\* re.search(r'From file <(.*?)>', content): the places where it matches
FromFileAt(s) ==
    {i \in 1..Len(s) :
        /\ At(s, i, "From file <")
        /\ \E g \in (i + 11)..Len(s) :
              /\ Ch(s, g) = ">"
              /\ \A h \in (i + 11)..(g - 1) : Ch(s, h) # "\n"}

original_file_of(file_path, content) ==
    IF FromFileAt(content) = {} THEN basename(file_path)
    ELSE LET i == Min(FromFileAt(content))
             g == Min({h \in (i + 11)..Len(content) : Ch(content, h) = ">"})
         IN  basename(SubSeq(content, i + 11, g - 1))

\* the loop that pairs error_codes[i] with frequencies[i]
PairByIndex(error_codes, frequencies) ==
    LET n == Min({Len(error_codes), Len(frequencies)})
    IN  [c \in {error_codes[i] : i \in 1..n} |->
            ToInt(frequencies[Max({i \in 1..n : error_codes[i] = c})])]

\* the loop over (frequency, error_code) matches
PairMatched(matches) ==
    [c \in {matches[i][2] : i \in DOMAIN matches} |->
        ToInt(matches[Max({i \in DOMAIN matches : matches[i][2] = c})][1])]

\* a directory entry is [filename, content, readable]; reading an unreadable
\* entry raises, and the except branch returns (None, None)
extract_error_frequencies(file_path, entry) ==
    IF ~entry.readable THEN <<None, None>>
    ELSE <<original_file_of(file_path, entry.content),
           PairByIndex(FindCodes(entry.content, 1), FindFrequencies(entry.content, 1))>>

extract_simple_error_frequencies(file_path, entry) ==
    IF ~entry.readable THEN <<None, None>>
    ELSE <<original_file_of(file_path, entry.content),
           PairMatched(FindSimple(entry.content, 1))>>

EndsWith(s, suffix) == Len(s) >= Len(suffix) /\ At(s, Len(s) - Len(suffix) + 1, suffix)

CexDirName(scr) ==
    IF scr = "extract_error_frequencies" THEN "ENNI_B1_SYN_freq" ELSE "data_0_freq"

Extract(scr, entry) ==
    IF scr = "extract_error_frequencies"
    THEN extract_error_frequencies(CexDirName(scr) \o "/" \o entry.filename, entry)
    ELSE extract_simple_error_frequencies(CexDirName(scr) \o "/" \o entry.filename, entry)

\* all_error_codes after the scan of one report returned result
CodesAfter(codes, result) ==
    IF result[2] # None THEN codes \cup DOMAIN result[2] ELSE codes

\* a main that leaves out the reports whose scan failed
DataAfter_drops_failed(data, result) ==
    IF result[2] # None THEN Append(data, result) ELSE data

\* file_data after the scan of one report returned result
DataAfter(data, result) ==
    IF result[2] # None THEN Append(data, result) ELSE Append(data, <<result[1], <<>> >>)

\* error_freqs.get(error_code, 0), as the cell csv.writer writes for it
Get(error_freqs, error_code) ==
    IF error_code \in DOMAIN error_freqs THEN <<ToStr(error_freqs[error_code])>> ELSE <<ToStr(0)>>

\* the row written for one entry of file_data: the cells after the first are
\* the counts as csv.writer writes them
RECURSIVE CountCells(_, _)
CountCells(error_freqs, codes) ==
    IF codes = <<>> THEN <<>>
    ELSE Get(error_freqs, Head(codes)) \o CountCells(error_freqs, Tail(codes))

RowOf(data, codes) == <<data[1]>> \o CountCells(data[2], codes)

(* The reports the aggregator is run on *)

CodeA == "[* m:03s:a]"
CodeB == "[* m:unv:a]"
CodeC == "[* s:r]"

Items == {"1 " \o CodeA, "12 " \o CodeB, CodeC, "2 0aux", "1 0det"}

Contents == {""} \cup {Join(q, "\n") : q \in WordSeqs(Items, MaxItems)}

ReportAB == [content |-> "1 " \o CodeA \o "\n  1 " \o CodeB \o "\n", readable |-> TRUE, ext |-> ".cex"]
ReportBC == [content |-> "From file <out/b.cha>\n1 " \o CodeC \o "\n1 " \o CodeB, readable |-> TRUE, ext |-> ".cex"]
ReportNone == [content |-> "", readable |-> TRUE, ext |-> ".cex"]
ReportMixed == [content |-> CodeC \o "\n3 " \o CodeA \o "\n", readable |-> TRUE, ext |-> ".cex"]
ReportSimple == [content |-> "2 0aux\n10 0det", readable |-> TRUE, ext |-> ".cex"]
ReportUnreadable == [content |-> "4 " \o CodeA \o "\n1 0aux", readable |-> FALSE, ext |-> ".cex"]
Notes == [content |-> "7 " \o CodeC \o " 5 0aux", readable |-> TRUE, ext |-> ".txt"]

SampleReports == {ReportAB, ReportBC, ReportNone, ReportMixed, ReportSimple, ReportUnreadable, Notes}

\* os.listdir: the entries, named by their place in the listing
Listing(kinds) ==
    [j \in DOMAIN kinds |->
        [filename |-> "f" \o ToStr(j) \o kinds[j].ext,
         content |-> kinds[j].content,
         readable |-> kinds[j].readable]]

Directories ==
    {Listing(<<[content |-> c, readable |-> TRUE, ext |-> ".cex"]>>) : c \in Contents}
        \cup {Listing(q) : q \in UNION {[1..n -> SampleReports] : n \in 2..MaxReports}}

AggInit ==
    /\ script \in {"extract_error_frequencies", "extract_simple_error_frequencies"}
    /\ cex_dir \in Directories
    /\ idx = 1
    /\ all_error_codes = {}
    /\ file_data = <<>>
    /\ sorted_error_codes = <<>>
    /\ csvfile = <<>>
    /\ pc = "scan"
    /\ PassIdle
    /\ SegIdle
    /\ BatchIdle
    /\ ChiIdle
    /\ PoolIdle

\* one turn of the first loop on a .cex entry
scan_report ==
    /\ pc = "scan"
    /\ idx <= Len(cex_dir)
    /\ EndsWith(cex_dir[idx].filename, ".cex")
    /\ all_error_codes' = CodesAfter(all_error_codes, Extract(script, cex_dir[idx]))
    /\ file_data' = DataAfter(file_data, Extract(script, cex_dir[idx]))
    /\ idx' = idx + 1
    /\ UNCHANGED <<script, cex_dir, sorted_error_codes, csvfile, pc, pvars, svars, bvars, xvars, wvars>>

\* one turn of the first loop on any other entry
skip_entry ==
    /\ pc = "scan"
    /\ idx <= Len(cex_dir)
    /\ ~EndsWith(cex_dir[idx].filename, ".cex")
    /\ idx' = idx + 1
    /\ UNCHANGED <<script, cex_dir, all_error_codes, file_data, sorted_error_codes,
                   csvfile, pc, pvars, svars, bvars, xvars, wvars>>

\* a main that writes the header from the codes collected so far while
\* entries of the listing are still unread
write_header_while_scanning ==
    /\ pc = "scan"
    /\ idx >= Len(cex_dir)
    /\ sorted_error_codes' = sorted(all_error_codes)
    /\ csvfile' = << <<"File">> \o sorted(all_error_codes) >>
    /\ pc' = IF file_data = <<>> THEN "done" ELSE "rows"
    /\ UNCHANGED <<script, cex_dir, idx, all_error_codes, file_data, pvars, svars, bvars, xvars, wvars>>

\* after the loop: the codes are sorted and the header is written
write_header ==
    /\ pc = "scan"
    /\ idx > Len(cex_dir)
    /\ sorted_error_codes' = sorted(all_error_codes)
    /\ csvfile' = << <<"File">> \o sorted(all_error_codes) >>
    /\ pc' = IF file_data = <<>> THEN "done" ELSE "rows"
    /\ UNCHANGED <<script, cex_dir, idx, all_error_codes, file_data, pvars, svars, bvars, xvars, wvars>>

\* one turn of the second loop
write_row ==
    /\ pc = "rows"
    /\ csvfile' = Append(csvfile, RowOf(file_data[Len(csvfile)], sorted_error_codes))
    /\ pc' = IF Len(csvfile) = Len(file_data) THEN "done" ELSE "rows"
    /\ UNCHANGED <<script, cex_dir, idx, all_error_codes, file_data,
                   sorted_error_codes, pvars, svars, bvars, xvars, wvars>>

AggNext ==
    \/ scan_report
    \/ skip_entry
    \/ write_header
    \/ write_row

SpecFreq == AggInit /\ [][AggNext]_vars

(* Properties of the frequency table *)

\* the .cex entries of the listing, in order: the k-th one is scanned k-th
CexPlaces == {j \in DOMAIN cex_dir : EndsWith(cex_dir[j].filename, ".cex")}

\* the report behind the k-th entry of file_data
ReportOf(k) == cex_dir[Nth(CexPlaces, k)]

\* the places of a report's text where a bracket code stands
CodePlaces(s) == {i \in 1..Len(s) : CodeEnd(s, i) > 0}

CodeTextAt(s, i) == SubSeq(s, i, CodeEnd(s, i))

\* the last character before position i that is not whitespace (0: none)
LastBefore(s, i) == Max({j \in 0..(i - 1) : j = 0 \/ ~IsSpace(Ch(s, j))})

\* the code at place i has a count right before it: digits, then whitespace
HasCount(s, i) ==
    /\ LastBefore(s, i) < i - 1
    /\ Ch(s, LastBefore(s, i)) \in DigitSet

\* that count
CountBefore(s, i) ==
    LET a == LastBefore(s, i)
        b == Max({j \in 0..a : j = 0 \/ Ch(s, j) \notin DigitSet}) + 1
    IN  ToInt(SubSeq(s, b, a))

\* the codes a report lists with a count, each with that count
Counted(s) ==
    {<<CodeTextAt(s, i), CountBefore(s, i)>> : i \in {k \in CodePlaces(s) : HasCount(s, k)}}

\* the codes found in a report
Found(s) == {CodeTextAt(s, i) : i \in CodePlaces(s)}

IsCount(cell) == cell # "" /\ \A k \in 1..Len(cell) : Ch(cell, k) \in DigitSet

\* C7: in the table extract_error_frequencies.main writes, the header is
\* "File" followed by the codes found in the scanned reports in sorted order,
\* every row has one cell per header code, every cell is a non-negative
\* integer: 0 when the report lacks the code or could not be read, and the
\* count the report gives for the code when the report lists it once with a
\* count.
C7_FrequencyCompleteness ==
    (script = "extract_error_frequencies" /\ csvfile # <<>>) =>
        LET header == csvfile[1]
            Scanned == {j \in CexPlaces : cex_dir[j].readable}
        IN  /\ header[1] = "File"
            /\ \A k \in 2..(Len(header) - 1) : StrLess(header[k], header[k + 1])
            /\ \A j \in Scanned : \A cn \in Counted(cex_dir[j].content) :
                    \E k \in 2..Len(header) : header[k] = cn[1]
            /\ \A k \in 2..Len(header) :
                    \E j \in Scanned : header[k] \in Found(cex_dir[j].content)
            /\ \A r \in 2..Len(csvfile) :
                    /\ Len(csvfile[r]) = Len(header)
                    /\ \A k \in 2..Len(header) :
                        LET cell == csvfile[r][k]
                            report == ReportOf(r - 1)
                            Places == {i \in CodePlaces(report.content) :
                                        CodeTextAt(report.content, i) = header[k]}
                        IN  /\ IsCount(cell)
                            /\ (~report.readable \/ Places = {}) => cell = "0"
                            /\ (/\ report.readable
                                /\ Cardinality(Places) = 1
                                /\ \A i \in Places : HasCount(report.content, i))
                                    => \A i \in Places :
                                          ToInt(cell) = CountBefore(report.content, i)

\* the count cells of the row written for the k-th report
CountsOfRow(k) == SubSeq(csvfile[k + 1], 2, Len(csvfile[k + 1]))

\* a report in which the running script finds no code
NoCodes(report) ==
    IF script = "extract_error_frequencies"
    THEN CodePlaces(report.content) = {}
    ELSE \A k \in 1..Len(report.content) : SimpleCodeStart(report.content, k) = 0

\* C8: when the table is written, it has exactly one row per .cex entry of
\* the directory, in the order of the listing, and the row of a report that
\* could not be read or that contains no code has 0 in every count cell.
C8_NoFileDropped ==
    pc = "done" =>
        /\ Len(csvfile) = Cardinality(CexPlaces) + 1
        /\ \A k \in 1..Cardinality(CexPlaces) :
              /\ Len(csvfile[k + 1]) = Len(csvfile[1])
              /\ (~ReportOf(k).readable \/ NoCodes(ReportOf(k)))
                    => \A c \in 1..Len(CountsOfRow(k)) : CountsOfRow(k)[c] = "0"

\* a finished run over an unreadable report, a report without codes and a
\* report with codes: three rows under a header with codes, two of them zero
C8_Witness ==
    /\ pc = "done"
    /\ Cardinality(CexPlaces) = 3
    /\ Len(csvfile) = 4
    /\ Len(csvfile[1]) > 1
    /\ ~ReportOf(1).readable
    /\ ReportOf(2).readable /\ NoCodes(ReportOf(2))
    /\ \A k \in {1, 2} : \A c \in 1..Len(CountsOfRow(k)) : CountsOfRow(k)[c] = "0"
    /\ \E c \in 1..Len(CountsOfRow(3)) : CountsOfRow(3)[c] # "0"

\* C9: for every bracket code a scanned report lists once, with a count right
\* before it, extract_error_frequencies records that count for that code,
\* whatever other codes the report holds with or without a count.
C9_CountPairing ==
    script = "extract_error_frequencies" =>
        \A k \in DOMAIN file_data :
            ReportOf(k).readable =>
                LET s == ReportOf(k).content
                IN  \A i \in CodePlaces(s) :
                        (/\ HasCount(s, i)
                         /\ \A h \in CodePlaces(s) :
                                CodeTextAt(s, h) = CodeTextAt(s, i) => h = i)
                            => /\ CodeTextAt(s, i) \in DOMAIN file_data[k][2]
                               /\ file_data[k][2][CodeTextAt(s, i)] = CountBefore(s, i)

----------------------------------------------------------------------------
(* dld_data_extractor.py and scripts/dld_naturalistic_data_extractor.py *)

\* str.replace(old, new) from position i on
RECURSIVE ReplaceFrom(_, _, _, _)
ReplaceFrom(s, i, old, new) ==
    LET starts == {k \in i..Len(s) : At(s, k, old)}
    IN  IF starts = {} THEN SubSeq(s, i, Len(s))
        ELSE SubSeq(s, i, Min(starts) - 1) \o new
                \o ReplaceFrom(s, Min(starts) + Len(old), old, new)

Replace(s, old, new) == ReplaceFrom(s, 1, old, new)

\* s without its characters that are in D
RECURSIVE DropChars(_, _)
DropChars(s, D) ==
    IF Len(s) <= 1 THEN (IF s \in D THEN "" ELSE s)
    ELSE DropChars(SubSeq(s, 1, Len(s) \div 2), D)
            \o DropChars(SubSeq(s, (Len(s) \div 2) + 1, Len(s)), D)

\* s without its characters that are not in K
RECURSIVE KeepChars(_, _)
KeepChars(s, K) ==
    IF Len(s) <= 1 THEN (IF s \in K THEN s ELSE "")
    ELSE KeepChars(SubSeq(s, 1, Len(s) \div 2), K)
            \o KeepChars(SubSeq(s, (Len(s) \div 2) + 1, Len(s)), K)

\* the end of the match of open.*?close at position k (open a literal, close
\* one character, . no newline), 0 without a match
SpanEnd(s, k, open, close) ==
    IF At(s, k, open)
    THEN LET stops == {j \in (k + Len(open))..Len(s) : Ch(s, j) \in {close, "\n"}}
         IN  IF stops # {} /\ Ch(s, Min(stops)) = close THEN Min(stops) ELSE 0
    ELSE 0

\* re.sub(open.*?close, '', s) from position i on
RECURSIVE RemoveSpans(_, _, _, _)
RemoveSpans(s, i, open, close) ==
    LET starts == {k \in i..Len(s) : SpanEnd(s, k, open, close) > 0}
    IN  IF starts = {} THEN SubSeq(s, i, Len(s))
        ELSE SubSeq(s, i, Min(starts) - 1)
                \o RemoveSpans(s, SpanEnd(s, Min(starts), open, close) + 1, open, close)

\* the position after the run of [a-z] from k
LowerRunEnd(s, k) == Min({j \in k..(Len(s) + 1) : Ch(s, j) \notin LowerSet})

\* re.sub(r'&[a-z]+', '', s) (keep = FALSE) and re.sub(r'&([a-z]+)', r'\1', s)
\* (keep = TRUE) from position i on
RECURSIVE SubFillers(_, _, _)
SubFillers(s, i, keep) ==
    LET starts == {k \in i..Len(s) : Ch(s, k) = "&" /\ Ch(s, k + 1) \in LowerSet}
    IN  IF starts = {} THEN SubSeq(s, i, Len(s))
        ELSE SubSeq(s, i, Min(starts) - 1)
                \o (IF keep THEN SubSeq(s, Min(starts) + 1, LowerRunEnd(s, Min(starts) + 1) - 1)
                    ELSE "")
                \o SubFillers(s, LowerRunEnd(s, Min(starts) + 1), keep)

\* re.sub(r'\s+', ' ', s) from position i on
RECURSIVE CollapseWs(_, _)
CollapseWs(s, i) ==
    LET starts == {k \in i..Len(s) : IsSpace(Ch(s, k))}
    IN  IF starts = {} THEN SubSeq(s, i, Len(s))
        ELSE SubSeq(s, i, Min(starts) - 1) \o " " \o CollapseWs(s, SkipWs(s, Min(starts)))

\* line.split(':', 1)[1]
AfterColon(line) ==
    SubSeq(line, Min({k \in 1..Len(line) : Ch(line, k) = ":"}) + 1, Len(line))

\* clean_utterance, step by step
clean_utterance(line) ==
    IF ~Contains(line, ":") THEN ""
    ELSE LET t1 == Strip(AfterColon(line))
             t2 == RemoveSpans(t1, 1, "[", "]")
             t3 == RemoveSpans(t2, 1, "<", ">")
             t4 == SubFillers(t3, 1, FALSE)
             t5 == DropChars(t4, {"+", "."} \cup DigitSet)
             t6 == Replace(t5, "xxx", "")
             t7 == Replace(t6, "yyy", "")
             t8 == Replace(t7, "_", " ")
             t9 == KeepChars(t8, WordSet \cup SpaceSet)
         IN  Strip(t9)

\* a cleaning that has no step for the retracing marker
smart_clean_utterance_without_retracing(line) ==
    LET t1 == Strip(AfterColon(line))
        t3 == Replace(t1, "[/]", "")
        t4 == SubFillers(t3, 1, TRUE)
        t5 == RemoveSpans(t4, 1, "[^", "]")
        t6 == RemoveSpans(t5, 1, "[", "]")
        t7 == Replace(Replace(t6, "<", ""), ">", "")
        t8 == Replace(Replace(t7, "xxx", ""), "yyy", "")
        t9 == Replace(Replace(t8, "(.)", ","), "(..)", "...")
        t10 == Strip(CollapseWs(t9, 1))
        t11 == Replace(t10, " .", ".")
    IN  Replace(t11, " ?", "?")

\* smart_clean_utterance, step by step (None is never returned for a *CHI:
\* line, the only lines the loop passes)
smart_clean_utterance(line) ==
    LET t1 == Strip(AfterColon(line))
        t2 == Replace(t1, "[//]", "...")
        t3 == Replace(t2, "[/]", "")
        t4 == SubFillers(t3, 1, TRUE)
        t5 == RemoveSpans(t4, 1, "[^", "]")
        t6 == RemoveSpans(t5, 1, "[", "]")
        t7 == Replace(Replace(t6, "<", ""), ">", "")
        t8 == Replace(Replace(t7, "xxx", ""), "yyy", "")
        t9 == Replace(Replace(t8, "(.)", ","), "(..)", "...")
        t10 == Strip(CollapseWs(t9, 1))
        t11 == Replace(t10, " .", ".")
    IN  Replace(t11, " ?", "?")

\* line.split('|')
SplitOn(s, sep) ==
    LET P == {k \in 1..Len(s) : Ch(s, k) = sep}
        n == Cardinality(P)
    IN  [j \in 1..(n + 1) |->
            SubSeq(s, IF j = 1 THEN 1 ELSE Nth(P, j - 1) + 1,
                      IF j = n + 1 THEN Len(s) ELSE Nth(P, j) - 1)]

\* the @ID line names the CHI speaker: len(parts) > 3 and parts[2] == 'CHI'
IsChiId(line) ==
    /\ At(line, 1, "@ID")
    /\ Len(SplitOn(line, "|")) > 3
    /\ SplitOn(line, "|")[3] = "CHI"

\* the header loop of dld_data_extractor: the metadata after one line
CorpusAfter(line, corpus) == IF IsChiId(line) THEN SplitOn(line, "|")[2] ELSE corpus

ChildAfter(line, child) == IF IsChiId(line) THEN SplitOn(line, "|")[3] ELSE child

AgeAfter(line, age) == IF IsChiId(line) THEN SplitOn(line, "|")[4] ELSE age

DiagnosisAfter(line, diag) ==
    LET d1 == IF /\ IsChiId(line)
                 /\ Len(SplitOn(line, "|")) > 5
                 /\ Strip(SplitOn(line, "|")[6]) # ""
              THEN SplitOn(line, "|")[6]
              ELSE diag
    IN  IF /\ At(line, 1, "@Types")
           /\ (Contains(line, "SLI") \/ Contains(line, "DLD") \/ Contains(line, "LI"))
           /\ d1 = "Unknown"
        THEN "DLD/SLI"
        ELSE d1

\* a test that lets a story of two utterances through
Saved_above_one(transcript) == Len(transcript) > 1

\* the test that decides whether the collected story is saved
Saved(transcript) == Len(transcript) > 2

\* the row appended for the collected story
StoryRow(ext, filename, corpus, child, age, diag, gem, transcript) ==
    IF ext = "dld_data_extractor"
    THEN [corpus |-> corpus, filename |-> filename, child_id |-> child, age_raw |-> age,
          diagnosis |-> diag, story_id |-> gem, transcript |-> Join(transcript, " ")]
    ELSE [corpus |-> corpus, age_raw |-> age, story_id |-> gem,
          transcript |-> Join(transcript, " ")]

Cleaned(ext, line) ==
    IF ext = "dld_data_extractor" THEN clean_utterance(line) ELSE smart_clean_utterance(line)

\* a story loop in which a `@G:` line does not empty the collected story
TranscriptAfter_keeps_story(ext, line, transcript) ==
    IF At(line, 1, "*CHI:") /\ Cleaned(ext, line) # ""
    THEN Append(transcript, Cleaned(ext, line))
    ELSE transcript

\* current_transcript after one line of the story loop
TranscriptAfter(ext, line, transcript) ==
    IF At(line, 1, "@G:") THEN <<>>
    ELSE IF At(line, 1, "*CHI:") /\ Cleaned(ext, line) # ""
         THEN Append(transcript, Cleaned(ext, line))
         ELSE transcript

\* current_gem after one line of the story loop
GemAfter(line, gem) ==
    IF At(line, 1, "@G:") THEN Strip(Replace(line, "@G:", "")) ELSE gem

(* The transcripts the extractors are run on *)
IdLine == "@ID:\teng|Corp|CHI|3;06.|male|SLI||Target_Child|||\n"
ShortIdLine == "@ID:\teng|Corp|CHI\n"
TypesLine == "@Types:\tcross, pictures, SLI\n"
GemA == "@G:\tA\n"
GemB == "@G:\tB\n"
Said == "*CHI:\the go [* m:03s:a] .\n"
Maze == "*CHI:\t<the dog> [/] &um dog (.) ran .\n"
Unintelligible == "*CHI:\txxx\n"
Mother == "*MOT:\tlook .\n"
IdEmpty == "@ID:\teng|Corp|CHI|3;06.|male|||Target_Child|||\n"
IdUnknown == "@ID:\teng|Corp|CHI|3;06.|male|Unknown||Target_Child|||\n"
IdNoAge == "@ID:\teng|Corp|CHI||male|TD||Target_Child|||\n"
IdMother == "@ID:\teng|Corp|MOT|||SLI||Mother|||\n"
TypesPlain == "@Types:\tcross, pictures, TD\n"

StoryLines == {GemA, Said, Unintelligible, Mother}

Stories == UNION {[1..n -> StoryLines] : n \in 0..MaxStoryLines}

LongStory ==
    <<IdLine, Said, Maze, Said, GemA, Said, Mother, Maze, TypesLine, GemB, Said,
      Unintelligible, Said>>

SampleFiles ==
    {[filename |-> "long.cha", lines |-> LongStory],
     [filename |-> "short.cha", lines |-> <<TypesLine, ShortIdLine, Said, Said>>],
     [filename |-> "notes.txt", lines |-> <<Said, Said, Said>>],
     [filename |-> "three.cha", lines |-> <<GemB, Maze, Said, Maze>>]}

\* the header lines of a transcript, in every order, before a story of three
\* utterances
HeaderLines == {IdLine, IdEmpty, IdUnknown, IdNoAge, ShortIdLine, IdMother, TypesLine, TypesPlain}

Headers == UNION {[1..n -> HeaderLines] : n \in 0..MaxHeaders}

DataPaths ==
    {<<[filename |-> "one.cha", lines |-> q]>> : q \in Stories}
        \cup {<<[filename |-> "head.cha", lines |-> h \o <<Said, Maze, Said>>]>> : h \in Headers}
        \cup UNION {[1..n -> SampleFiles] : n \in 2..MaxFiles}

SegInit ==
    /\ extractor \in {"dld_data_extractor", "dld_naturalistic_data_extractor"}
    /\ data_path \in DataPaths
    /\ fileno = 1
    /\ phase = "listdir"
    /\ lineno = 0
    /\ corpus_name = "" /\ child_id = "" /\ age_string = "" /\ diagnosis = ""
    /\ current_gem = "" /\ current_transcript = <<>>
    /\ data_rows = <<>>
    /\ PassIdle
    /\ AggIdle
    /\ BatchIdle
    /\ ChiIdle
    /\ PoolIdle

\* a directory entry that is not a .cha file
skip_file ==
    /\ phase = "listdir"
    /\ fileno <= Len(data_path)
    /\ ~EndsWith(data_path[fileno].filename, ".cha")
    /\ fileno' = fileno + 1
    /\ UNCHANGED <<extractor, data_path, phase, lineno, corpus_name, child_id, age_string,
                   diagnosis, current_gem, current_transcript, data_rows, pvars, fvars, bvars, xvars, wvars>>

\* an opening of the file that leaves the collected story as it is
open_file_keeps_transcript ==
    /\ phase = "listdir"
    /\ fileno <= Len(data_path)
    /\ EndsWith(data_path[fileno].filename, ".cha")
    /\ corpus_name' = "Unknown"
    /\ child_id' = IF extractor = "dld_data_extractor" THEN "Unknown" ELSE child_id
    /\ age_string' = IF extractor = "dld_data_extractor" THEN "Unknown" ELSE "0;0"
    /\ diagnosis' = IF extractor = "dld_data_extractor" THEN "Unknown" ELSE diagnosis
    /\ current_gem' = "General"
    /\ lineno' = 1
    /\ phase' = IF extractor = "dld_data_extractor" THEN "headers" ELSE "stories"
    /\ UNCHANGED <<extractor, data_path, fileno, current_transcript, data_rows, pvars, fvars,
                   bvars, xvars, wvars>>

\* a .cha file is read and the per-file locals are set
open_file ==
    /\ phase = "listdir"
    /\ fileno <= Len(data_path)
    /\ EndsWith(data_path[fileno].filename, ".cha")
    /\ corpus_name' = "Unknown"
    /\ child_id' = IF extractor = "dld_data_extractor" THEN "Unknown" ELSE child_id
    /\ age_string' = IF extractor = "dld_data_extractor" THEN "Unknown" ELSE "0;0"
    /\ diagnosis' = IF extractor = "dld_data_extractor" THEN "Unknown" ELSE diagnosis
    /\ current_gem' = "General"
    /\ current_transcript' = <<>>
    /\ lineno' = 1
    /\ phase' = IF extractor = "dld_data_extractor" THEN "headers" ELSE "stories"
    /\ UNCHANGED <<extractor, data_path, fileno, data_rows, pvars, fvars, bvars, xvars, wvars>>

\* dld_data_extractor, loop 1: one line of the headers
read_header ==
    /\ phase = "headers"
    /\ lineno <= Len(data_path[fileno].lines)
    /\ LET line == data_path[fileno].lines[lineno]
       IN  /\ corpus_name' = CorpusAfter(line, corpus_name)
           /\ child_id' = ChildAfter(line, child_id)
           /\ age_string' = AgeAfter(line, age_string)
           /\ diagnosis' = DiagnosisAfter(line, diagnosis)
    /\ lineno' = lineno + 1
    /\ UNCHANGED <<extractor, data_path, fileno, phase, current_gem, current_transcript,
                   data_rows, pvars, fvars, bvars, xvars, wvars>>

\* dld_data_extractor: loop 1 is over, loop 2 starts at the first line
start_stories ==
    /\ phase = "headers"
    /\ lineno > Len(data_path[fileno].lines)
    /\ phase' = "stories"
    /\ lineno' = 1
    /\ UNCHANGED <<extractor, data_path, fileno, corpus_name, child_id, age_string,
                   diagnosis, current_gem, current_transcript, data_rows, pvars, fvars, bvars, xvars, wvars>>

\* one line of the story loop; the naturalistic script reads the @ID line in
\* the same loop
read_line ==
    /\ phase = "stories"
    /\ lineno <= Len(data_path[fileno].lines)
    /\ LET line == data_path[fileno].lines[lineno]
           corpus == IF extractor = "dld_data_extractor" THEN corpus_name
                     ELSE CorpusAfter(line, corpus_name)
           age == IF extractor = "dld_data_extractor" THEN age_string
                  ELSE AgeAfter(line, age_string)
       IN  /\ corpus_name' = corpus
           /\ age_string' = age
           /\ data_rows' =
                IF At(line, 1, "@G:") /\ Saved(current_transcript)
                THEN Append(data_rows,
                            StoryRow(extractor, data_path[fileno].filename, corpus, child_id,
                                     age, diagnosis, current_gem, current_transcript))
                ELSE data_rows
           /\ current_gem' = GemAfter(line, current_gem)
           /\ current_transcript' = TranscriptAfter(extractor, line, current_transcript)
    /\ lineno' = lineno + 1
    /\ UNCHANGED <<extractor, data_path, fileno, phase, child_id, diagnosis, pvars, fvars, bvars, xvars, wvars>>

\* end of file: the last story is saved under the same test
save_last_story ==
    /\ phase = "stories"
    /\ lineno > Len(data_path[fileno].lines)
    /\ data_rows' =
          IF Saved(current_transcript)
          THEN Append(data_rows,
                      StoryRow(extractor, data_path[fileno].filename, corpus_name, child_id,
                               age_string, diagnosis, current_gem, current_transcript))
          ELSE data_rows
    /\ fileno' = fileno + 1
    /\ phase' = "listdir"
    /\ UNCHANGED <<extractor, data_path, lineno, corpus_name, child_id, age_string,
                   diagnosis, current_gem, current_transcript, pvars, fvars, bvars, xvars, wvars>>

\* the listing is exhausted: the rows are written to the csv file
to_csv ==
    /\ phase = "listdir"
    /\ fileno > Len(data_path)
    /\ phase' = "done"
    /\ UNCHANGED <<extractor, data_path, fileno, lineno, corpus_name, child_id, age_string,
                   diagnosis, current_gem, current_transcript, data_rows, pvars, fvars, bvars, xvars, wvars>>

SegNext ==
    \/ skip_file
    \/ open_file
    \/ read_header
    \/ start_stories
    \/ read_line
    \/ save_last_story
    \/ to_csv

SpecSeg == SegInit /\ [][SegNext]_vars

(* dld_naturalistic_data_extractor on one-utterance transcripts that hold
   the markers of disfluent speech *)
Marks == {"he", "<the dog>", "[//]", "[/]", "&um", "(.)", "(..)", "[^ c]", "[+ bch]"}

MarkedFiles ==
    {<<[filename |-> "u.cha", lines |-> <<MkLine("*CHI:", Join(q, " "))>>, toks |-> q]>> :
        q \in UNION {[1..n -> Marks] : n \in 1..MaxMarks}}

CleanInit ==
    /\ extractor = "dld_naturalistic_data_extractor"
    /\ data_path \in MarkedFiles
    /\ fileno = 1
    /\ phase = "listdir"
    /\ lineno = 0
    /\ corpus_name = "" /\ child_id = "" /\ age_string = "" /\ diagnosis = ""
    /\ current_gem = "" /\ current_transcript = <<>>
    /\ data_rows = <<>>
    /\ PassIdle
    /\ AggIdle
    /\ BatchIdle
    /\ ChiIdle
    /\ PoolIdle

CleanNext ==
    \/ open_file
    \/ read_line
    \/ save_last_story
    \/ to_csv

SpecClean == CleanInit /\ [][CleanNext]_vars

----------------------------------------------------------------------------
(* extract_chi_text.py *)

\* re.sub(open[^close]*close, '', s) from position i on, open and close one
\* character each
RECURSIVE RemoveGroups(_, _, _, _)
RemoveGroups(s, i, open, close) ==
    LET starts == {k \in i..Len(s) :
                      Ch(s, k) = open /\ \E j \in (k + 1)..Len(s) : Ch(s, j) = close}
    IN  IF starts = {} THEN SubSeq(s, i, Len(s))
        ELSE LET a == Min(starts)
                 b == Min({j \in (a + 1)..Len(s) : Ch(s, j) = close})
             IN  SubSeq(s, i, a - 1) \o RemoveGroups(s, b + 1, open, close)

\* re.sub(r'\^.*$', '', s) on a line without a line break
RemoveComment(s) ==
    LET carets == {k \in 1..Len(s) : Ch(s, k) = "^"}
    IN  IF carets = {} THEN s ELSE SubSeq(s, 1, Min(carets) - 1)

\* re.sub(c[^\s]*, '', s) from position i on, c one character
RECURSIVE RemoveTokens(_, _, _)
RemoveTokens(s, i, c) ==
    LET starts == {k \in i..Len(s) : Ch(s, k) = c}
    IN  IF starts = {} THEN SubSeq(s, i, Len(s))
        ELSE LET a == Min(starts)
                 b == Min({j \in (a + 1)..(Len(s) + 1) : IsSpace(Ch(s, j)) \/ j = Len(s) + 1})
             IN  SubSeq(s, i, a - 1) \o RemoveTokens(s, b, c)

\* the position after the run of colons from k
SkipColons(s, k) == Min({j \in k..(Len(s) + 1) : Ch(s, j) # ":"})

\* ([a-zA-Z]+):+([a-zA-Z]+) matched at position k
FragmentsAt(s, k) ==
    /\ IsLetter(Ch(s, k))
    /\ Ch(s, SkipLetters(s, k)) = ":"
    /\ IsLetter(Ch(s, SkipColons(s, SkipLetters(s, k))))

\* re.sub(r'([a-zA-Z]+):+([a-zA-Z]+)', r'\1\2', s) from position i on
RECURSIVE MergeFragments(_, _)
MergeFragments(s, i) ==
    LET starts == {k \in i..Len(s) : FragmentsAt(s, k)}
    IN  IF starts = {} THEN SubSeq(s, i, Len(s))
        ELSE LET a == Min(starts)
                 e == SkipLetters(s, a)
                 f == SkipColons(s, e)
                 g == SkipLetters(s, f)
             IN  SubSeq(s, i, e - 1) \o SubSeq(s, f, g - 1) \o MergeFragments(s, g)

\* re.sub(r'([a-zA-Z]):+', r'\1', s) from position i on
RECURSIVE RemoveColons(_, _)
RemoveColons(s, i) ==
    LET starts == {k \in i..Len(s) : IsLetter(Ch(s, k)) /\ Ch(s, k + 1) = ":"}
    IN  IF starts = {} THEN SubSeq(s, i, Len(s))
        ELSE SubSeq(s, i, Min(starts)) \o RemoveColons(s, SkipColons(s, Min(starts) + 1))

\* a cleaning without the step for the colons that remain after a letter
clean_text_without_remaining_colons(line) ==
    LET text_part == Strip(SubSeq(line, 6, Len(line)))
        t1 == RemoveGroups(text_part, 1, "[", "]")
        t2 == RemoveGroups(t1, 1, "<", ">")
        t3 == RemoveGroups(t2, 1, "{", "}")
        t4 == RemoveGroups(t3, 1, "(", ")")
        t5 == RemoveComment(t4)
        t6 == RemoveTokens(t5, 1, "+")
        t7 == RemoveTokens(t6, 1, "&")
        t8 == RemoveTokens(t7, 1, "|")
        t9 == RemoveTokens(t8, 1, "\\")
        t10 == MergeFragments(t9, 1)
    IN  Strip(Join(Split(t10), " "))

\* clean_text for a stripped line that starts with *CHI:, step by step
clean_text(line) ==
    LET text_part == Strip(SubSeq(line, 6, Len(line)))
        t1 == RemoveGroups(text_part, 1, "[", "]")
        t2 == RemoveGroups(t1, 1, "<", ">")
        t3 == RemoveGroups(t2, 1, "{", "}")
        t4 == RemoveGroups(t3, 1, "(", ")")
        t5 == RemoveComment(t4)
        t6 == RemoveTokens(t5, 1, "+")
        t7 == RemoveTokens(t6, 1, "&")
        t8 == RemoveTokens(t7, 1, "|")
        t9 == RemoveTokens(t8, 1, "\\")
        t10 == MergeFragments(t9, 1)
        t11 == RemoveColons(t10, 1)
    IN  Strip(Join(Split(t11), " "))

(* The files extract_chi_text is called on: a first line of up to MaxChiToks
   pieces of transcription, then up to MaxChiLines - 1 further lines *)
ChiToks ==
    {"he", "[^c]", "[=! whispers]", "<the dog>", "{x}", "(.)", "^c he", "+...", "&um",
     "he|she", "\\um", "s:ome::body", "no:", ":", "]", "[", "a[b]c", "(a [b) c]"}

ChiPrefixes == {"*CHI:\t", "  *CHI:"}

MoreLines == {"*CHI:\t[/] &um\n", "*MOT:\the|she go .\n"}

ChiFiles ==
    {<<p \o Join(q, " ") \o "\n">> \o more :
        p \in ChiPrefixes,
        q \in UNION {[1..n -> ChiToks] : n \in 1..MaxChiToks},
        more \in UNION {[1..n -> MoreLines] : n \in 0..(MaxChiLines - 1)}}

ChiInit ==
    /\ sli_file \in ChiFiles
    /\ line_no = 1
    /\ chi_texts = <<>>
    /\ returned = <<>>
    /\ PassIdle
    /\ AggIdle
    /\ SegIdle
    /\ BatchIdle
    /\ PoolIdle

\* one pass of the loop over a line that starts with *CHI: once stripped
chi_line ==
    /\ returned = <<>>
    /\ line_no \in DOMAIN sli_file
    /\ At(Strip(sli_file[line_no]), 1, "*CHI:")
    /\ chi_texts' = IF clean_text(Strip(sli_file[line_no])) # ""
                    THEN Append(chi_texts, clean_text(Strip(sli_file[line_no])))
                    ELSE chi_texts
    /\ line_no' = line_no + 1
    /\ UNCHANGED <<sli_file, returned, pvars, fvars, svars, bvars, wvars>>

\* one pass of the loop over any other line
other_line ==
    /\ returned = <<>>
    /\ line_no \in DOMAIN sli_file
    /\ ~At(Strip(sli_file[line_no]), 1, "*CHI:")
    /\ line_no' = line_no + 1
    /\ UNCHANGED <<sli_file, chi_texts, returned, pvars, fvars, svars, bvars, wvars>>

\* the file is exhausted: the collected texts are joined and returned
return_text ==
    /\ returned = <<>>
    /\ line_no > Len(sli_file)
    /\ returned' = IF chi_texts # <<>> THEN <<[text |-> Join(chi_texts, " ")]>> ELSE <<None>>
    /\ UNCHANGED <<sli_file, line_no, chi_texts, pvars, fvars, svars, bvars, wvars>>

ChiNext ==
    \/ chi_line
    \/ other_line
    \/ return_text

SpecChi == ChiInit /\ [][ChiNext]_vars

----------------------------------------------------------------------------
(* find_and_annotate_unv_errors and find_and_annotate_03s_errors called on
   the files of a folder by workers, one call per file: a call is two
   whole-file steps, the read (readlines and the loop over its lines) and
   the write (writelines and return), and the calls on different files
   interleave freely *)
PoolContents ==
    {<<"*CHI:\the do .\n", "%mor:\tpro|he v|do .\n">>,
     <<"*CHI:\the play .\n", "*CHI:\tthat he do .\n">>,
     <<"*MOT:\tlook .\n">>}

Folders == UNION {[1..n -> PoolContents] : n \in 1..MaxWorkers}

NotStarted == [state |-> "waiting", lines |-> <<>>, errors_found |-> 0]

PoolInit ==
    /\ job \in {"find_unv_errors", "find_03s_errors"}
    /\ folder \in Folders
    /\ on_disk = folder
    /\ calls = [k \in DOMAIN folder |-> NotStarted]
    /\ PassIdle
    /\ AggIdle
    /\ SegIdle
    /\ BatchIdle
    /\ ChiIdle

\* a call whose list of lines is one list shared by all the calls under way
reads_file_into_shared_lines ==
    \E k \in DOMAIN calls :
        /\ calls[k].state = "waiting"
        /\ calls' = [j \in DOMAIN calls |->
                        IF j = k
                        THEN [state |-> "read",
                              lines |-> Rewrite(job, on_disk[k]),
                              errors_found |-> Returned(job, on_disk[k])]
                        ELSE IF calls[j].state = "read"
                             THEN [calls[j] EXCEPT !.lines = Rewrite(job, on_disk[k])]
                             ELSE calls[j]]
        /\ UNCHANGED <<job, folder, on_disk, pvars, fvars, svars, bvars, xvars>>

\* a call reads its file and builds its local list of lines and its count
reads_file ==
    \E k \in DOMAIN calls :
        /\ calls[k].state = "waiting"
        /\ calls' = [calls EXCEPT ![k] = [state |-> "read",
                                          lines |-> Rewrite(job, on_disk[k]),
                                          errors_found |-> Returned(job, on_disk[k])]]
        /\ UNCHANGED <<job, folder, on_disk, pvars, fvars, svars, bvars, xvars>>

\* the call writes its lines to its file and returns its count
writes_file ==
    \E k \in DOMAIN calls :
        /\ calls[k].state = "read"
        /\ on_disk' = [on_disk EXCEPT ![k] = calls[k].lines]
        /\ calls' = [calls EXCEPT ![k].state = "returned"]
        /\ UNCHANGED <<job, folder, pvars, fvars, svars, bvars, xvars>>

PoolNext ==
    \/ reads_file
    \/ writes_file

SpecPool == PoolInit /\ [][PoolNext]_vars

(* Properties of the exported stories *)

\* the boundary lines of a file
Boundaries(lines) == {k \in DOMAIN lines : At(lines[k], 1, "@G:")}

\* a file holds one segment before its first boundary and one after each
SegmentCount(lines) == Cardinality(Boundaries(lines)) + 1

SegmentFirst(lines, j) == IF j = 1 THEN 1 ELSE Nth(Boundaries(lines), j - 1) + 1

SegmentLast(lines, j) ==
    IF j = SegmentCount(lines) THEN Len(lines) ELSE Nth(Boundaries(lines), j) - 1

SegmentName(lines, j) ==
    IF j = 1 THEN "General" ELSE GemAfter(lines[Nth(Boundaries(lines), j - 1)], "")

\* the *CHI: utterances of segment j
UtterancesIn(lines, j) ==
    {k \in SegmentFirst(lines, j)..SegmentLast(lines, j) : At(lines[k], 1, "*CHI:")}

\* those of them whose cleaned text is not empty
SpokenIn(ext, lines, j) == {k \in UtterancesIn(lines, j) : Cleaned(ext, lines[k]) # ""}

\* the number of utterances segment j holds: all its *CHI: lines (whole), or
\* only those with a non-empty cleaned text
Holds(ext, lines, j, whole) ==
    IF whole THEN Cardinality(UtterancesIn(lines, j))
    ELSE Cardinality(SpokenIn(ext, lines, j))

\* the names of the segments of a file that hold 3 or more utterances, in
\* order, from segment j on
RECURSIVE SegmentsDue(_, _, _, _)
SegmentsDue(ext, lines, j, whole) ==
    IF j > SegmentCount(lines) THEN <<>>
    ELSE (IF Holds(ext, lines, j, whole) >= 3 THEN <<SegmentName(lines, j)>> ELSE <<>>)
            \o SegmentsDue(ext, lines, j + 1, whole)

\* the same over the .cha files of a listing, from file f on
RECURSIVE StoriesDue(_, _, _, _)
StoriesDue(ext, listing, f, whole) ==
    IF f > Len(listing) THEN <<>>
    ELSE (IF EndsWith(listing[f].filename, ".cha")
          THEN SegmentsDue(ext, listing[f].lines, 1, whole)
          ELSE <<>>)
            \o StoriesDue(ext, listing, f + 1, whole)

StoryIds == [k \in DOMAIN data_rows |-> data_rows[k].story_id]

IsPrefix(p, q) == Len(p) <= Len(q) /\ SubSeq(q, 1, Len(p)) = p

\* C10 as stated: the exported rows are, in order and once each, the segments
\* that hold 3 or more *CHI: utterances; no other segment is ever exported.
C10_SegmentThreshold ==
    /\ IsPrefix(StoryIds, StoriesDue(extractor, data_path, 1, TRUE))
    /\ phase = "done" => StoryIds = StoriesDue(extractor, data_path, 1, TRUE)

\* C10 amended: the exported rows are, in order and once each, the segments of
\* the .cha files that hold 3 or more *CHI: utterances whose cleaned text is
\* not empty; a segment with 2 or fewer of them is never exported.
C10_SpokenThreshold ==
    /\ IsPrefix(StoryIds, StoriesDue(extractor, data_path, 1, FALSE))
    /\ phase = "done" => StoryIds = StoriesDue(extractor, data_path, 1, FALSE)

\* a finished run over a file with a story of three spoken utterances, a
\* story of two, and a story of three utterances one of which cleans to
\* nothing: only the first is exported
C10_Witness ==
    /\ phase = "done"
    /\ data_path[1].lines = LongStory
    /\ Holds(extractor, LongStory, 1, FALSE) = 3
    /\ Holds(extractor, LongStory, 2, FALSE) = 2
    /\ Holds(extractor, LongStory, 3, TRUE) = 3
    /\ Holds(extractor, LongStory, 3, FALSE) = 2
    /\ data_path[2].filename = "notes.txt"
    /\ Len(data_rows) = 1
    /\ data_rows[1].story_id = "General"

(* Segment flushing *)

\* the row a flush of the open segment appends: the segment's name and its
\* collected utterances joined by blanks
Flushed(rows, rows2) ==
    IF Len(current_transcript) >= 3
    THEN /\ Len(rows2) = Len(rows) + 1
         /\ SubSeq(rows2, 1, Len(rows)) = rows
         /\ rows2[Len(rows2)].story_id = current_gem
         /\ rows2[Len(rows2)].transcript = Join(current_transcript, " ")
    ELSE rows2 = rows

\* C11: a step over a `@G:` line flushes the open segment (a row for it iff it
\* holds 3 or more collected utterances) and opens an empty segment named by
\* the line; a step over any other line exports nothing; the step at end of
\* file flushes the open segment under the same rule; the step that opens a
\* file starts from an empty segment, and between files every segment that
\* met the threshold is the last exported row.
C11_SegmentFlushing ==
    /\ [][/\ (phase = "stories" /\ lineno <= Len(data_path[fileno].lines)) =>
                LET line == data_path[fileno].lines[lineno]
                IN  IF At(line, 1, "@G:")
                    THEN /\ Flushed(data_rows, data_rows')
                         /\ current_transcript' = <<>>
                         /\ current_gem' = Strip(SubSeq(line, 4, Len(line)))
                    ELSE /\ data_rows' = data_rows
                         /\ IsPrefix(current_transcript, current_transcript')
                         /\ current_gem' = current_gem
          /\ (phase = "stories" /\ lineno > Len(data_path[fileno].lines)) =>
                /\ Flushed(data_rows, data_rows')
                /\ phase' = "listdir"
                /\ fileno' = fileno + 1
          /\ (phase = "listdir" /\ phase' \in {"headers", "stories"}) =>
                /\ current_transcript' = <<>>
                /\ current_gem' = "General"
                /\ data_rows' = data_rows]_vars
    /\ [](phase \in {"listdir", "done"} /\ Len(current_transcript) >= 3 =>
            /\ data_rows # <<>>
            /\ data_rows[Len(data_rows)].transcript = Join(current_transcript, " "))

\* a finished run over long.cha, whose first segment of three utterances is
\* closed by a `@G:` line and whose last segment holds two, and three.cha,
\* whose only named segment of three utterances is open at end of file
C11_Witness ==
    /\ phase = "done"
    /\ data_path[1].filename = "long.cha"
    /\ data_path[2].filename = "three.cha"
    /\ Len(data_rows) = 2
    /\ data_rows[1].story_id = "General"
    /\ data_rows[2].story_id = "B"
    /\ Len(current_transcript) = 3

(* Metadata of the exported stories *)

\* the fields of a header line
Fields(line) == SplitOn(line, "|")

\* the CHI @ID lines of a file that carry a non-empty diagnosis field
WithDiagnosis(lines) ==
    {k \in DOMAIN lines :
        /\ At(lines[k], 1, "@ID")
        /\ Len(Fields(lines[k])) > 5
        /\ Fields(lines[k])[3] = "CHI"
        /\ Strip(Fields(lines[k])[6]) # ""}

\* the @Types lines of a file that hold a keyword
WithKeyword(lines) ==
    {k \in DOMAIN lines :
        /\ At(lines[k], 1, "@Types")
        /\ \/ Contains(lines[k], "SLI")
           \/ Contains(lines[k], "DLD")
           \/ Contains(lines[k], "LI")}

\* C12: once the headers of a file are read, in whatever order they stand,
\* the diagnosis is the diagnosis field of a CHI @ID line if one carries a
\* non-empty field; it is "DLD/SLI" if none does and a @Types line holds a
\* keyword; otherwise it is "Unknown".
C12_DiagnosisPriority ==
    (extractor = "dld_data_extractor" /\ phase = "stories") =>
        LET lines == data_path[fileno].lines
        IN  IF WithDiagnosis(lines) # {}
            THEN \E k \in WithDiagnosis(lines) : diagnosis = Fields(lines[k])[6]
            ELSE IF WithKeyword(lines) # {}
                 THEN diagnosis = "DLD/SLI"
                 ELSE diagnosis = "Unknown"

\* the @ID lines of a file that name the CHI speaker and are long enough
ChiIds(lines) ==
    {k \in DOMAIN lines :
        /\ At(lines[k], 1, "@ID")
        /\ Len(Fields(lines[k])) > 3
        /\ Fields(lines[k])[3] = "CHI"}

\* C13: a row exported from a file without a long-enough CHI @ID line has the
\* corpus "Unknown" and the age "Unknown"; a row from a file whose CHI @ID
\* lines all have an empty age field has the age "Unknown"; a row of
\* dld_data_extractor from a file without a diagnosis field and without a
\* keyword has the diagnosis "Unknown".
C13_MetadataFallback ==
    [][data_rows' # data_rows =>
        LET lines == data_path[fileno].lines
            row == data_rows'[Len(data_rows')]
        IN  /\ ChiIds(lines) = {} =>
                  row.corpus = "Unknown" /\ row.age_raw = "Unknown"
            /\ (\A k \in ChiIds(lines) : Strip(Fields(lines[k])[4]) = "") =>
                  row.age_raw = "Unknown"
            /\ (/\ extractor = "dld_data_extractor"
                /\ WithDiagnosis(lines) = {}
                /\ WithKeyword(lines) = {}) =>
                  row.diagnosis = "Unknown"]_vars

(* Properties of the rewriting passes *)

\* C14: a pass changes only `*CHI:` lines: every line that does not start
\* with `*CHI:` (a header, a dependent tier, another speaker's utterance) is
\* written back as it was read.
C14_OnlyChiMutated ==
    [][\A i \in DOMAIN file : ~At(file[i], 1, "*CHI:") => file'[i] = file[i]]_vars

\* the number of lines readlines() finds in the text that writelines() wrote
WrittenLines(f) ==
    SumSeq([i \in DOMAIN f |-> Cardinality({k \in 1..Len(f[i]) : Ch(f[i], k) = "\n"})])
        + (IF f # <<>> /\ ~EndsWith(f[Len(f)], "\n") THEN 1 ELSE 0)

\* the tier a line belongs to: its speaker or tier code up to the colon, or
\* nothing for a continuation line
Tier(line) ==
    IF Ch(line, 1) \in {"*", "%", "@"} /\ \E k \in 1..Len(line) : Ch(line, k) = ":"
    THEN SubSeq(line, 1, Min({k \in 1..Len(line) : Ch(line, k) = ":"}))
    ELSE ""

\* C15: after any sequence of passes the file holds as many lines as the
\* file first read, and its k-th line belongs to the tier of the k-th line
\* first read, so each dependent tier still follows its utterance.
C15_TierAdjacency ==
    hist # <<>> =>
        /\ WrittenLines(file) = WrittenLines(hist[1])
        /\ Len(file) = Len(hist[1])
        /\ \A i \in DOMAIN file : Tier(file[i]) = Tier(hist[1][i])

\* a transcript whose utterance is followed by its %mor tier, after an
\* annotation pass and a tagging pass that both rewrote the utterance
C15_Witness ==
    /\ hist # <<>>
    /\ hist[1] = <<"@Comment:\tscore 0 .\n", "*CHI:\the do .\n", "%mor:\tpro|he v|do .\n">>
    /\ ops = <<"unv", "gram">>
    /\ file[2] = "*CHI:\the do [* m:unv:a] . [+ gram]\n"
    /\ file[3] = hist[1][3]

\* a line without its line ending
Chomp(line) ==
    IF EndsWith(line, "\r\n") THEN SubSeq(line, 1, Len(line) - 2)
    ELSE IF EndsWith(line, "\n") THEN SubSeq(line, 1, Len(line) - 1)
    ELSE line

\* no rule of add_error_coding_to_file fires on the line: it is not a *CHI:
\* line, or no error pattern matches its utterance and the missing-article
\* step prefixes none of its words
NoRuleFires(line) ==
    At(line, 1, "*CHI:") =>
        LET utterance == Strip(SubSeq(Strip(line), 7, Len(Strip(line))))
        IN  /\ \A k \in DOMAIN error_patterns :
                  MatchStarts(utterance, error_patterns[k][1]) = <<>>
            /\ \A i \in DOMAIN Split(utterance) :
                  ArticleWord(Split(utterance), i) = Split(utterance)[i]

\* C16: an agreement pass that returns 0, and add_error_coding_to_file on a
\* file none of whose lines fires a rule, write every line back character
\* for character, line endings aside.
C16_LosslessPassThrough ==
    [][(\/ /\ ops' \in {Append(ops, "unv"), Append(ops, "03s"), Append(ops, "vsg")}
           /\ ret' = 0
        \/ /\ ops' = Append(ops, "clan")
           /\ \A i \in DOMAIN file : NoRuleFires(file[i]))
        => \A i \in DOMAIN file : Chomp(file'[i]) = Chomp(file[i])]_vars

(* Properties of the batch drivers *)

\* processing file k of the batch fails: it cannot be read, or it is written
\* and cannot be opened for writing or written
Fails(k) ==
    \/ cha_files[k].fault = "read"
    \/ /\ cha_files[k].fault \in {"open", "write"}
       /\ (driver # "add_gram_tag"
            \/ Rewrite(driver, cha_files[k].lines) # cha_files[k].lines)

\* C17: no batch is aborted; when the batch is over, every file whose
\* processing failed has its path and the reason on record, and every other
\* file holds the lines its pass builds.
C17_FailureIsolation ==
    /\ step # "aborted"
    /\ step = "done" =>
          \A k \in DOMAIN cha_files :
              IF Fails(k)
              THEN \E j \in DOMAIN stdout :
                      stdout[j].path = FilePath(k) /\ stdout[j].reason # ""
              ELSE disk[k] = Rewrite(driver, cha_files[k].lines)

\* the files of the batch whose processing succeeded, and those whose
\* processing failed
Succeeded == {k \in DOMAIN cha_files : ~Fails(k)}

Failed == {k \in DOMAIN cha_files : Fails(k)}

\* C18: a batch run is never left unfinished; when it is over every file has
\* been reached, the closing line reports the number of succeeded files and
\* the number of failed files, and each failed file's path is printed with
\* the reason.
C18_CompletionReport ==
    /\ step # "aborted"
    /\ step = "done" =>
          LET report == stdout[Len(stdout)].numbers
          IN  /\ at = Len(cha_files) + 1
              /\ \E n, m \in DOMAIN report :
                    /\ n # m
                    /\ report[n] = Cardinality(Succeeded)
                    /\ report[m] = Cardinality(Failed)
              /\ \A k \in Failed :
                    \E j \in DOMAIN stdout :
                        stdout[j].path = FilePath(k) /\ stdout[j].reason # ""

\* C19: at every point of a batch run, each file holds on disk either the
\* complete lines it held before the run or the complete lines its pass
\* builds from them.
C19_AtomicRewrite ==
    \A k \in DOMAIN cha_files :
        \/ disk[k] = cha_files[k].lines
        \/ disk[k] = Rewrite(driver, cha_files[k].lines)

(* The aggregation barrier *)

\* the codes the scans of all the .cex entries of the listing return
FinalUnion ==
    UNION {CodesAfter({}, Extract(script, cex_dir[j])) :
           j \in {i \in DOMAIN cex_dir : EndsWith(cex_dir[i].filename, ".cex")}}

\* C20: as long as an entry of the listing is unread nothing is written and
\* the codes are not sorted; once anything is written, every entry has been
\* read, the header is "File" followed by the sorted union of the codes of
\* all reports, and every row has one cell per column of that header.
C20_AggregationBarrier ==
    /\ idx <= Len(cex_dir) => csvfile = <<>> /\ sorted_error_codes = <<>> /\ pc = "scan"
    /\ csvfile # <<>> =>
          LET columns == sorted(FinalUnion)
          IN  /\ idx = Len(cex_dir) + 1
              /\ sorted_error_codes = columns
              /\ csvfile[1] = <<"File">> \o columns
              /\ \A r \in DOMAIN csvfile : Len(csvfile[r]) = 1 + Len(columns)

\* a finished run over three reports in which the last report read brings a
\* code the earlier ones do not hold: the header and both earlier rows have
\* its column
C20_Witness ==
    /\ pc = "done"
    /\ script = "extract_error_frequencies"
    /\ Len(cex_dir) = 3
    /\ \A j \in DOMAIN cex_dir : EndsWith(cex_dir[j].filename, ".cex")
    /\ Extract(script, cex_dir[3])[2] # None
    /\ \E c \in DOMAIN Extract(script, cex_dir[3])[2] :
          /\ Extract(script, cex_dir[1])[2] # None
          /\ c \notin DOMAIN Extract(script, cex_dir[1])[2]
          /\ \E k \in DOMAIN csvfile[1] : csvfile[1][k] = c /\ csvfile[2][k] = "0"
    /\ Len(csvfile) = 4

(* Naturalistic cleaning *)

\* what is left of one token of an utterance: a retracing marker is an
\* ellipsis, a short pause a comma, a long pause an ellipsis, a filler its
\* sound, a grouping its words; a repetition marker and any other code or
\* comment leave nothing
Spoken(tok) ==
    CASE tok = "[//]" -> "..."
      [] tok = "(.)" -> ","
      [] tok = "(..)" -> "..."
      [] Ch(tok, 1) = "&" -> SubSeq(tok, 2, Len(tok))
      [] Ch(tok, 1) = "<" -> SubSeq(tok, 2, Len(tok) - 1)
      [] Ch(tok, 1) = "[" -> ""
      [] OTHER -> tok

\* C21: the cleaned text of a *CHI: line is, blanks aside, what its tokens
\* leave in order, and holds no "[", "]", "<" or ">".
C21_NaturalisticCleaning ==
    (phase = "stories" /\ lineno = 2) =>
        LET toks == data_path[1].toks
            cleaned == IF current_transcript = <<>> THEN "" ELSE current_transcript[1]
        IN  /\ DropChars(cleaned, {" "})
                  = DropChars(Join([i \in DOMAIN toks |-> Spoken(toks[i])], ""), {" "})
            /\ \A k \in 1..Len(cleaned) : Ch(cleaned, k) \notin {"[", "]", "<", ">"}

\* the utterance "<the dog> [//] &um he" has been cleaned to
\* "the dog... um he"
C21_Witness ==
    /\ phase = "stories"
    /\ lineno = 2
    /\ data_path[1].toks = <<"<the dog>", "[//]", "&um">>
    /\ current_transcript = <<"the dog... um">>

(* Properties of extract_chi_text *)

\* text holds an opening character with a closing one somewhere after it
HasGroup(text, open, close) ==
    \E i \in 1..Len(text) : Ch(text, i) = open /\ \E j \in (i + 1)..Len(text) : Ch(text, j) = close

\* what the strict cleaning promises of a text it produced
StrictlyClean(text) ==
    /\ text # ""
    /\ ~HasGroup(text, "[", "]") /\ ~HasGroup(text, "<", ">")
    /\ ~HasGroup(text, "{", "}") /\ ~HasGroup(text, "(", ")")
    /\ \A k \in 1..Len(text) :
          /\ Ch(text, k) \notin {"^", "&", "+", "|", "\\"}
          /\ Ch(text, k) = ":" => ~IsLetter(Ch(text, k - 1))
          /\ IsSpace(Ch(text, k)) => Ch(text, k) = " " /\ k \notin {1, Len(text)}
                                        /\ Ch(text, k + 1) # " "

\* the lines read so far that start with *CHI: once stripped
ChiLinesRead == {k \in 1..(line_no - 1) : At(Strip(sli_file[k]), 1, "*CHI:")}

\* C22: every text the cleaning of a *CHI: line contributes is non-empty and
\* holds no [...], <...>, {...} or (...) group, no ^, &, +, | or backslash,
\* no colon directly after a letter, and no blank at either end or next to
\* another blank; a line contributes at most one text, and the value returned
\* is those texts joined by single blanks.
C22_StrictCleaning ==
    /\ \A k \in DOMAIN chi_texts : StrictlyClean(chi_texts[k])
    /\ Len(chi_texts) <= Cardinality(ChiLinesRead)
    /\ \A k \in DOMAIN returned :
          IF chi_texts = <<>> THEN returned[k] = None
          ELSE StrictlyClean(returned[k].text)

\* the line "[^c] s:ome::body" gave "somebody" and the line "[/] &um" after
\* it gave nothing
C22_Witness ==
    /\ sli_file = <<"*CHI:\t[^c] s:ome::body\n", "*CHI:\t[/] &um\n">>
    /\ chi_texts = <<"somebody">>
    /\ returned = <<[text |-> "somebody"]>>

(* Further properties of the agreement passes *)

\* the codes whose presence makes the pass named op leave a line alone
SkipCodes(op) ==
    CASE op = "unv" -> {CUNV}
      [] op = "vsg" -> {CVSG}
      [] op = "03s" -> {C03S, CUNV, CVSG}
      [] OTHER -> {}

\* C23: a line that carries the code of the pass (for the 03s pass: any of the
\* three agreement codes) when the pass starts is left unchanged by it.
C23_SkipCodedLines ==
    Len(ops) >= 1 =>
        \A n \in DOMAIN file :
            (\E c \in SkipCodes(ops[Len(ops)]) : Contains(hist[Len(ops)][n], c))
                => file[n] = hist[Len(ops)][n]

\* how many times code stands in the lines of f
CodeCount(f, code) ==
    SumSeq([n \in DOMAIN f |-> Cardinality({k \in 1..Len(f[n]) : At(f[n], k, code)})])

\* the code a pass adds or removes
CodeOf(op) ==
    CASE op = "unv" -> CUNV
      [] op = "vsg" -> CVSG
      [] OTHER -> C03S

\* C24: the integer a pass returns is the number of occurrences of its code
\* the call added to the file, and the integer the revert returns is the
\* number of occurrences of [* m:03s:a] the call removed.
C24_ReturnedCounts ==
    Len(ops) >= 1 =>
        LET op == ops[Len(ops)]
            before == CodeCount(hist[Len(ops)], CodeOf(op))
            after == CodeCount(file, CodeOf(op))
        IN  IF op = "revert" THEN ret = before - after ELSE ret = after - before

\* C25: after revert_03s_annotations no line holds [* m:03s:a], and a line
\* that did not hold it is as it was.
C25_RevertRemovesAll ==
    (Len(ops) >= 1 /\ ops[Len(ops)] = "revert") =>
        \A n \in DOMAIN file :
            /\ ~Contains(file[n], C03S)
            /\ ~Contains(hist[Len(ops)][n], C03S) => file[n] = hist[Len(ops)][n]

(* Properties of the tagging *)

\* a token of body that starts with 0 and names an omitted word
HasOmission(body) ==
    \E k \in 1..Len(body) :
        /\ Ch(body, k) = "0"
        /\ IsLetter(Ch(body, k + 1))
        /\ k = 1 \/ IsSpace(Ch(body, k - 1))

\* the line holds an error marker, ends with terminal punctuation and has no
\* [+ gram] yet
NeedsGram(line) ==
    LET body == Chomp(line)
    IN  /\ Contains(body, "[* m:") \/ Contains(body, "[* s:r:") \/ HasOmission(body)
        /\ ~Contains(body, GRAM)
        /\ body # ""
        /\ Ch(body, Len(body)) \in {".", "!", "?"}

\* the line with " [+ gram]" directly after its terminal punctuation
Tagged(line) ==
    Chomp(line) \o " " \o GRAM \o SubSeq(line, Len(Chomp(line)) + 1, Len(line))

\* C26: process_file writes every line that holds an error marker, ends with
\* ".", "!" or "?" and has no [+ gram] with " [+ gram]" inserted directly
\* after the punctuation and nothing else changed, and writes every other
\* line as it was.
C26_GramPlacement ==
    [][ops' = Append(ops, "gram") =>
          \A i \in DOMAIN file :
              file'[i] = IF NeedsGram(file[i]) THEN Tagged(file[i]) ELSE file[i]]_vars

\* how many times [+ gram] stands in line
GramCount(line) == Cardinality({k \in 1..Len(line) : At(line, k, GRAM)})

\* C27: a run of process_file right after another finds no line to tag: it
\* returns False, leaves the file as it is and does not open it for writing;
\* after a run no line holds [+ gram] more than once.
C27_GramIdempotent ==
    /\ (/\ Len(ops) >= 2
        /\ ops[Len(ops)] = "gram"
        /\ ops[Len(ops) - 1] = "gram")
            => /\ ret = 0
               /\ file = hist[Len(ops)]
               /\ ~Writes("add_gram_tag", hist[Len(ops)])
    /\ (Len(ops) >= 1 /\ ops[Len(ops)] = "gram")
            => \A i \in DOMAIN file : GramCount(file[i]) <= 1

\* two runs on a transcript whose second utterance holds an error code: the
\* first tagged it, the second changed and returned nothing
C27_Witness ==
    /\ ops = <<"gram", "gram">>
    /\ hist[1] = <<"*CHI:\t0aux he going .\n", "*CHI:\the 0aux going .\n">>
    /\ hist[2] = <<"*CHI:\t0aux he going .\n", "*CHI:\the 0aux going . [+ gram]\n">>
    /\ file = hist[2]
    /\ ret = 0

(* Content of the exported stories *)

\* the cleaned non-empty utterances of segment j, in source order, joined by
\* blanks
SegmentText(ext, lines, j) ==
    LET S == SpokenIn(ext, lines, j)
    IN  Join([i \in 1..Cardinality(S) |-> Cleaned(ext, lines[Nth(S, i)])], " ")

\* the texts of the segments of a file that are exported, from segment j on
RECURSIVE TextsDue(_, _, _)
TextsDue(ext, lines, j) ==
    IF j > SegmentCount(lines) THEN <<>>
    ELSE (IF Holds(ext, lines, j, FALSE) >= 3 THEN <<SegmentText(ext, lines, j)>> ELSE <<>>)
            \o TextsDue(ext, lines, j + 1)

\* the same over the .cha files among the first n entries of a listing
RECURSIVE TextsOfFiles(_, _, _)
TextsOfFiles(ext, listing, n) ==
    IF n = 0 THEN <<>>
    ELSE TextsOfFiles(ext, listing, n - 1)
            \o (IF EndsWith(listing[n].filename, ".cha")
                THEN TextsDue(ext, listing[n].lines, 1)
                ELSE <<>>)

\* C28: between two files and at the end of the run, the transcripts of the
\* exported rows are, in order and once each, the texts of the exported
\* segments of the files read so far: each the cleaned non-empty `*CHI:`
\* utterances between the segment's two boundaries, in source order, joined
\* by blanks.
C28_SegmentContent ==
    phase \in {"listdir", "done"} =>
        [k \in DOMAIN data_rows |-> data_rows[k].transcript]
            = TextsOfFiles(extractor, data_path, fileno - 1)

\* a finished run over long.cha and three.cha: one row for the three
\* utterances before the first boundary of long.cha, one for the three
\* utterances of three.cha after its boundary
C28_Witness ==
    /\ phase = "done"
    /\ extractor = "dld_data_extractor"
    /\ data_path[1].filename = "long.cha"
    /\ data_path[2].filename = "three.cha"
    /\ Len(data_rows) = 2
    /\ data_rows[1].transcript = "he go dog  ran he go"
    /\ data_rows[2].transcript = "dog  ran he go dog  ran"

(* Independence of the files of a folder *)

\* the returns of the calls that have returned, added up
TotalReturned ==
    SumSeq([k \in DOMAIN calls |->
                IF calls[k].state = "returned" THEN calls[k].errors_found ELSE 0])

\* C29: however the reads and writes of the calls on the files of a folder
\* interleave, a file holds what it held when the run began until its call
\* writes it and what the pass alone makes of that from then on, and the
\* returns add up to the total of a run over the files one after another.
C29_FileIndependence ==
    /\ \A k \in DOMAIN calls :
          on_disk[k] = IF calls[k].state = "returned"
                       THEN Rewrite(job, folder[k])
                       ELSE folder[k]
    /\ (\A k \in DOMAIN calls : calls[k].state = "returned")
          => TotalReturned = SumSeq([k \in DOMAIN folder |-> Returned(job, folder[k])])

\* the unv pass on two files: the second was read after the first and
\* written before it
C29_Witness ==
    /\ job = "find_unv_errors"
    /\ Len(folder) = 2
    /\ folder[1] = <<"*CHI:\the do .\n", "%mor:\tpro|he v|do .\n">>
    /\ folder[2] = <<"*CHI:\the play .\n", "*CHI:\tthat he do .\n">>
    /\ calls[1].state = "read"
    /\ calls[2].state = "returned"
    /\ on_disk[2] = <<"*CHI:\the play .\n", "*CHI:\tthat he do [* m:unv:a] .\n">>
    /\ calls[2].errors_found = 1

(* The two rules for singular subjects *)

\* the run of codes that directly follows position e of t holds code c
RECURSIVE FollowedBy(_, _, _)
FollowedBy(t, e, c) ==
    \/ At(t, e + 1, " " \o c)
    \/ \E d \in Codes : At(t, e + 1, " " \o d) /\ FollowedBy(t, e + 1 + Len(d), c)

\* C30: every bare verb of the unv rule is excluded by the 03s rule, and after
\* the two passes in either order on a file without codes, no subject
\* followed by a bare verb is followed by [* m:03s:a].
C30_RulesDisjoint ==
    (/\ ops \in {<<"unv", "03s">>, <<"03s", "unv">>}
     /\ \A c \in Codes : NoCode(hist[1], c))
        => /\ \A n \in DOMAIN file :
                LET t == file[n]
                    L == Lower(t)
                IN  \A i \in WordStarts(L) :
                       \A k \in 1..(Len(SINGULAR_SUBJECTS) * Len(BARE_VERBS)) :
                           LET p == PairAt(SINGULAR_SUBJECTS, BARE_VERBS, k)
                               e == PairEnd(L, i, p[1], p[2])
                           IN  e > 0 => ~FollowedBy(t, e, C03S)
           /\ \A k \in DOMAIN BARE_VERBS : BARE_VERBS[k] \in EXCLUDED_VERBS

\* "that he do" after both passes: "he do" carries the unv code and the 03s
\* code went to "that he"
C30_Witness ==
    /\ ops = <<"unv", "03s">>
    /\ hist[1] = <<"*CHI:\tthat he do\n">>
    /\ file = <<"*CHI:\tthat he [* m:03s:a] do [* m:unv:a]\n">>

====
